---- MODULE Spec2Model ----
(***************************************************************************)
(* Resume review application: the platform adapter / state store           *)
(* (app/lib/puter.ts), the review screen (app/routes/resume.tsx, second    *)
(* Resume component, lines 396-676) and the resume file generator          *)
(* (lib/fileGenerator, src/unnamed/part_000).                              *)
(*                                                                         *)
(* JavaScript strings are sequences of one-character strings; null and     *)
(* undefined are the tokens NULL and UNDEF.  Every `await` on a platform   *)
(* adapter call is a step boundary: the call is issued in one action and   *)
(* settles (resolves or rejects) in a later one.                           *)
(***************************************************************************)
EXTENDS Integers, Sequences, FiniteSets, TLC

VARIABLES
    puterAvail,        \* window.puter is defined
    kvStore,           \* the platform's key-value store: key -> stored text
    sdkUser,           \* the user signed in at the platform, or NULL
    fsFiles,           \* files written through puter.fs.write
    sdkLog,            \* every call issued to the SDK object, with its issuer
    store,             \* the zustand store: isLoading, error, puterReady, auth
    mounted,           \* the Resume component is mounted (its effects have run)
    unmounted,         \* the Resume component has been torn down
    id,                \* route parameter :id
    navCount,          \* number of route id changes so far
    loads,             \* the loadResume invocations, one per effect run
    imageUrl, resumeUrl, feedback, fileMetadata,          \* useState cells
    isGenerating, generationError, generationSuccess,     \* useState cells
    nextUrl,           \* next object URL that URL.createObjectURL hands out
    liveUrls,          \* object URLs created and not yet revoked
    genPc,             \* position of the running handleGenerateUpdatedResume
    genCall,           \* how the awaited adapter call was issued: "sdk" / "local"
    genData,           \* `data`, the parsed record of the running request
    genFile,           \* the fileMetadata the running request closed over
    genFeedback,       \* the feedback the running request closed over
    genResult,         \* `result` of ai.generateUpdatedResume
    genOptions,        \* the options the request passed to ai.generateUpdatedResume
    aiResp,            \* `aiResponse`, the last response puter.ai.chat resolved to
    genCalls,          \* SDK calls issued by the current request, per api
    genFailures,       \* the failures met by the current (or last) request
    genEntry,          \* what the last handler invocation found on entry
    reqCount,          \* handler invocations so far
    previews,          \* preview windows opened by the current request
    downloads,         \* downloads triggered by the current request, in order
    dlInfo,            \* last generateAndDownload call: inputs and outcome
    twin,              \* what two requests differing in fileMetadata showed
    rendered,          \* a content with the PDF and the Word output made of it
    adPc,              \* position of the adapter method called directly
    adMethod,          \* that method
    adCall,            \* the SDK call it awaits
    adCalls,           \* the SDK functions it has called, in order
    adOutcome,         \* how its promise settled
    adCount,           \* adapter methods called directly so far
    authOps,           \* the auth operations of the store running side by side
    poll,              \* init(): whether it was called, its interval and its timeout
    route              \* the screen shown and what its redirect effect last saw

vars == << puterAvail, kvStore, sdkUser, fsFiles, sdkLog, store, mounted, unmounted,
           id, navCount,
           loads, imageUrl, resumeUrl, feedback, fileMetadata, isGenerating,
           generationError, generationSuccess, nextUrl, liveUrls, genPc,
           genCall, genData, genFile, genFeedback, genResult, genOptions, aiResp,
           genCalls, genFailures, genEntry, reqCount, previews, downloads, dlInfo,
           twin, rendered, adPc, adMethod, adCall, adCalls, adOutcome, adCount,
           authOps, poll, route >>

sdkVars    == << kvStore, sdkUser, fsFiles >>
screenVars == << mounted, unmounted, id, navCount, loads, imageUrl, resumeUrl, feedback,
                 fileMetadata, nextUrl, liveUrls >>
genVars    == << isGenerating, generationError, generationSuccess, genPc,
                 genCall, genData, genFile, genFeedback, genResult, genOptions,
                 aiResp, genCalls, genFailures, genEntry, reqCount, previews,
                 downloads, dlInfo, twin, rendered >>
adVars     == << adPc, adMethod, adCall, adCalls, adOutcome, adCount >>
shellVars  == << poll, route >>
appVars    == << authOps, shellVars >>

(***************************** bounds **************************************)
MaxReqs == 2      \* handler invocations explored per behaviour
MaxNav  == 1      \* route id changes explored per behaviour
MaxCalls == 2     \* direct adapter method calls explored per behaviour
MaxOps == 2       \* auth operations of the store running side by side
MaxTicks == 3     \* interval ticks due by the load timeout (10000 / 100 in the code)

(************************** JavaScript values ******************************)
NULL  == "null"
UNDEF == "undefined"

\* truthiness of a value held as a token (null, undefined, "" are falsy)
Truthy(v) == v \notin {NULL, UNDEF, ""}

Str(s)   == [t |-> "string", v |-> s]
NoStr    == [t |-> "undefined", v |-> <<>>]
\* `x || dflt` for an optional string x
OrElse(x, dflt) == IF x.t = "string" /\ x.v # <<>> THEN x.v ELSE dflt

Whitespace == {" ", "\n"}
AlphaNum   == {"A", "B", "c", "d", "1"}

RECURSIVE TrimStart(_)
TrimStart(s) ==
    IF s # <<>> /\ Head(s) \in Whitespace THEN TrimStart(Tail(s)) ELSE s

RECURSIVE TrimEnd(_)
TrimEnd(s) ==
    IF s # <<>> /\ s[Len(s)] \in Whitespace
    THEN TrimEnd(SubSeq(s, 1, Len(s) - 1)) ELSE s

\* String.prototype.trim
Trim(s) == TrimEnd(TrimStart(s))

\* companyName?.replace(/[^a-zA-Z0-9]/g, '_') || 'optimized'
Optimized == <<"o", "p", "t", "i", "m", "i", "z", "e", "d">>
SanitizeCompany(company) ==
    IF company.t # "string" THEN Optimized
    ELSE LET r == [i \in DOMAIN company.v |->
                     IF company.v[i] \in AlphaNum THEN company.v[i] ELSE "_"]
         IN  IF r = <<>> THEN Optimized ELSE r

(**************************** data model ***********************************)
Ids   == {"1", "2"}
KeyOf(i) == <<"resume:", i>>
Keys  == {KeyOf(i) : i \in Ids}
Dates == {"2026-01-01", "2026-01-02"}      \* new Date(), as a date
Stamps == {"2026-01-01T10-00-00-000Z"}     \* new Date(), as an ISO time stamp

PDF_MIME  == "application/pdf"
DOCX_MIME == "application/vnd.openxmlformats-officedocument.wordprocessingml.document"
DOC_MIME  == "application/msword"
TXT_MIME  == "text/plain"

Meta(mime, ext, name) ==
    [originalMimeType |-> mime, originalExtension |-> ext, originalFilename |-> name]
NoMeta == Meta(NULL, NULL, NULL)
AbsentMeta == Meta(UNDEF, UNDEF, UNDEF)
\* the default the screen installs for a record without fileMetadata
DefaultMeta == Meta(PDF_MIME, "pdf", "resume.pdf")

Metas == { Meta(PDF_MIME, "pdf", "cv.pdf"),
           Meta(DOCX_MIME, "docx", "cv.docx"),
           Meta(DOC_MIME, "doc", "cv.doc"),
           Meta(TXT_MIME, "txt", "cv.txt"),
           Meta("", "md", "cv.md"),
           Meta("image/png", "png", "cv.png") }

\* A resume record as the upload screen stores it (spec section 3).
Record(company, fb, meta) ==
    [ resumePath |-> "/r.pdf", imagePath |-> "/r.png", rawText |-> "RAW",
      jobDescription |-> "JD", companyName |-> company, feedback |-> fb,
      fileMetadata |-> meta ]

\* property access on a parsed object: a missing property reads undefined
Get(obj, field) == IF field \in DOMAIN obj THEN obj[field] ELSE UNDEF

Acme == Str(<<"A", "c">>)
AandB == Str(<<"A", "&", "B">>)

Companies == {Acme, AandB, Str(<<>>), NoStr}

RecPdf      == Record(AandB, "F1", Meta(PDF_MIME, "pdf", "cv.pdf"))
RecDoc      == Record(NoStr, "F2", Meta(DOC_MIME, "doc", "cv.doc"))
RecTxt      == Record(Str(<<>>), "F1", Meta(TXT_MIME, "txt", "cv.txt"))
RecNoMeta   == Record(Acme, "F2", AbsentMeta)
RecNullFb   == Record(Acme, NULL, Meta(PDF_MIME, "pdf", "cv.pdf"))
RecAbsentFb == Record(AandB, UNDEF, Meta(TXT_MIME, "txt", "cv.txt"))
Records == {RecPdf, RecDoc, RecTxt, RecNoMeta, RecNullFb, RecAbsentFb}

NoRecord == Record(NoStr, UNDEF, AbsentMeta)
\* what the store holds under a key: JSON text of a record, text that is not
\* JSON, or nothing (kv.get resolves null)
KvJson(r) == [kind |-> "json", rec |-> r]
KvBad     == [kind |-> "bad",  rec |-> NoRecord]
KvNone    == [kind |-> "none", rec |-> NoRecord]
KvValues  == {KvJson(r) : r \in Records} \cup {KvBad, KvNone}

\* the stores explored: anything under the first id; under the second id
\* nothing, text that does not parse, a record without feedback, or a record
\* of another format
KvStores  == { f \in [Keys -> KvValues] :
                 f[KeyOf("2")] \in {KvNone, KvBad, KvJson(RecNullFb), KvJson(RecDoc)} }

(****************************** SDK calls **********************************)
NoPath == [dir |-> "", company |-> <<>>, stamp |-> "", ext |-> ""]
SdkCall(by, api, key, path) == [by |-> by, api |-> api, key |-> key, path |-> path]
FilePath(p) == [dir |-> p, company |-> <<>>, stamp |-> "", ext |-> ""]

\* what a settled SDK call does to the platform's key-value store
KvAfter(call, kv) ==
    IF call.api = "kv.set" /\ call.key \in DOMAIN kv
      THEN [kv EXCEPT ![call.key] = KvBad]
    ELSE IF call.api = "kv.delete" /\ call.key \in DOMAIN kv
      THEN [kv EXCEPT ![call.key] = KvNone]
    ELSE IF call.api = "kv.flush"
      THEN [k \in DOMAIN kv |-> KvNone]
    ELSE kv

\* ... and to its file system
FsAfter(call, fs) ==
    IF call.api = "fs.write" THEN fs \cup {call.path} ELSE fs


NoCall == SdkCall("none", "none", <<>>, NoPath)
\* an adapter method's `getPuter()` check followed by the SDK call
Issue(by, api, key, path) ==
    IF puterAvail THEN SdkCall(by, api, key, path) ELSE NoCall
Logged(call) == IF call = NoCall THEN sdkLog ELSE sdkLog \cup {call}

(******************************* store *************************************)
InitialStore ==
    [ isLoading |-> TRUE, error |-> NULL, puterReady |-> FALSE,
      user |-> NULL, isAuthenticated |-> FALSE, getUser |-> "live" ]

\* setError(msg): the closure getUser is carried over, user is cleared
SetError(s, msg) ==
    [s EXCEPT !.error = msg, !.isLoading = FALSE,
              !.user = NULL, !.isAuthenticated = FALSE]

NotAvailable == "Puter.js not available"
\* the store after a pass-through adapter method (fs.*, kv.*, ai.chat, ...)
StoreAfterPassThrough(s) ==
    IF puterAvail THEN s ELSE SetError(s, NotAvailable)

\* error instanceof Error ? error.message : fallback
ErrValues == {"Error:sdk failure", "not an Error"}
ErrMessage(err, fallback) ==
    IF err = "Error:sdk failure" THEN "sdk failure" ELSE fallback

(*************************** file generator ********************************)
Filename(base, ext) == [base |-> base, ext |-> ext]
BaseFilename(company, date) == [company |-> SanitizeCompany(company), date |-> date]
Blob(type, fmt, content) == [type |-> type, fmt |-> fmt, text |-> content]

(* Regular expressions, as RegExp.prototype.test evaluates the anchored     *)
(* patterns of the generator: a pattern is a tree, Ends gives the positions *)
(* at which a match that started at one of the positions P can end.         *)
UpperSeq == <<"A", "B", "C", "D", "E", "F", "G", "H", "I", "J", "K", "L", "M", "N", "O", "P", "Q", "R", "S", "T", "U", "V", "W", "X", "Y", "Z">>
LowerSeq == <<"a", "b", "c", "d", "e", "f", "g", "h", "i", "j", "k", "l", "m", "n", "o", "p", "q", "r", "s", "t", "u", "v", "w", "x", "y", "z">>
UpperChars == {UpperSeq[i] : i \in DOMAIN UpperSeq}
LowerChars == {LowerSeq[i] : i \in DOMAIN LowerSeq}
DigitChars == {"0", "1", "2", "3", "4", "5", "6", "7", "8", "9"}
WordChars  == UpperChars \cup LowerChars \cup DigitChars \cup {"_"}

Chr(set)    == [op |-> "chr", set |-> set]
Cat(items)  == [op |-> "cat", items |-> items]
Alt(items)  == [op |-> "alt", items |-> items]
Opt(item)   == [op |-> "opt", item |-> item]
Plus(item)  == [op |-> "plus", item |-> item]
Star(item)  == [op |-> "star", item |-> item]
AtEnd       == [op |-> "end"]
\* a literal under the flag i: every letter matches in both cases
LitI(word) ==
    Cat([i \in DOMAIN word |->
           Chr({word[i]} \cup {LowerSeq[k] : k \in {j \in DOMAIN UpperSeq : UpperSeq[j] = word[i]}})])

RECURSIVE Ends(_, _, _)
RECURSIVE Closure(_, _, _)
Closure(re, s, P) ==
    LET Q == P \cup Ends(re, s, P)
    IN  IF Q = P THEN P ELSE Closure(re, s, Q)
Ends(re, s, P) ==
    CASE re.op = "chr"  -> {p + 1 : p \in {q \in P : q <= Len(s) /\ s[q] \in re.set}}
      [] re.op = "cat"  -> IF re.items = <<>> THEN P
                           ELSE Ends(Cat(Tail(re.items)), s, Ends(Head(re.items), s, P))
      [] re.op = "alt"  -> UNION {Ends(re.items[i], s, P) : i \in DOMAIN re.items}
      [] re.op = "opt"  -> P \cup Ends(re.item, s, P)
      [] re.op = "plus" -> Closure(re.item, s, Ends(re.item, s, P))
      [] re.op = "star" -> Closure(re.item, s, P)
      [] re.op = "end"  -> {p \in P : p = Len(s) + 1}

\* pattern.test(line) for a pattern that starts with ^
Test(re, line) == Ends(re, line, {1}) # {}

Sp    == Chr(Whitespace)
Up    == Chr(UpperChars)
Lo    == Chr(LowerChars)
Digit == Chr(DigitChars)
Wd    == Chr(WordChars)
Sep   == Opt(Chr({"-"} \cup Whitespace))
\* [A-Z][a-z]+
Capitalized == Cat(<<Up, Plus(Lo)>>)

SectionNames ==
    << <<"P", "R", "O", "F", "E", "S", "S", "I", "O", "N", "A", "L", " ", "S", "U", "M", "M", "A", "R", "Y">>,
       <<"W", "O", "R", "K", " ", "E", "X", "P", "E", "R", "I", "E", "N", "C", "E">>,
       <<"E", "D", "U", "C", "A", "T", "I", "O", "N">>,
       <<"S", "K", "I", "L", "L", "S">>,
       <<"P", "R", "O", "J", "E", "C", "T", "S">>,
       <<"C", "E", "R", "T", "I", "F", "I", "C", "A", "T", "I", "O", "N", "S">> >>

\* the five headerPatterns of isHeaderLine
HeaderPatterns ==
    << Cat(<<Chr(UpperChars \cup Whitespace), Plus(Chr(UpperChars \cup Whitespace)), AtEnd>>),
       Alt([i \in DOMAIN SectionNames |-> LitI(SectionNames[i])]),
       Cat(<<Capitalized, Plus(Sp), Capitalized, AtEnd>>),
       Cat(<<Plus(Wd), Chr({"@"}), Plus(Wd), Chr({"."}), Plus(Wd)>>),
       Cat(<<Opt(Chr({"+"})), Digit, Opt(Digit), Opt(Digit), Sep, Opt(Chr({"("})),
             Digit, Digit, Digit, Opt(Chr({")"})), Sep, Digit, Digit, Digit, Sep,
             Digit, Digit, Digit, Digit>>) >>

\* (variant: the all-capitals pattern is missing)
IsHeaderLineNoCapitals(line) ==
    \E i \in DOMAIN HeaderPatterns \ {1} : Test(HeaderPatterns[i], line)

\* headerPatterns.some(pattern => pattern.test(line))
IsHeaderLine(line) ==
    \E i \in DOMAIN HeaderPatterns : Test(HeaderPatterns[i], line)

\* the three patterns of isSubHeaderLine
SubHeaderPatterns ==
    << Cat(<<Plus(Wd), Star(Chr(WordChars \cup Whitespace)), Plus(Sp), Chr({"|"}),
             Plus(Sp), Digit, Digit, Digit, Digit>>),
       Cat(<<Plus(Wd), Star(Chr(WordChars \cup Whitespace)), Chr({","}), Star(Sp),
             Digit, Digit, Digit, Digit>>),
       Cat(<<Capitalized, Star(Cat(<<Plus(Sp), Capitalized>>)), Star(Sp), AtEnd>>) >>

\* patterns.some(pattern => pattern.test(line)) && line.length < 100
IsSubHeaderLine(line) ==
    /\ \E i \in DOMAIN SubHeaderPatterns : Test(SubHeaderPatterns[i], line)
    /\ Len(line) < 100

\* content.split('\n'): the pieces between consecutive line feeds
SplitLines(content) ==
    LET nl == {i \in DOMAIN content : content[i] = "\n"}
        n  == Cardinality(nl)
        Pos(k) == IF k = 0 THEN 0
                  ELSE IF k = n + 1 THEN Len(content) + 1
                  ELSE CHOOSE i \in nl : Cardinality({j \in nl : j < i}) = k - 1
    IN  [k \in 1 .. (n + 1) |-> SubSeq(content, Pos(k - 1) + 1, Pos(k) - 1)]

(* generatePDF and formatForWord, line by line.  An A4 portrait page in mm;  *)
(* pdf.splitTextToSize is taken to cut a line into pieces of `cols`          *)
(* characters.                                                               *)
PageHeight == 297
Margin == 20
LineHeight == 6
HalfLine == LineHeight \div 2

Preset(font, size) == [font |-> font, size |-> size]
\* the if / else if / else of generatePDF that picks the font preset
PdfPreset(line) ==
    IF IsHeaderLine(line) THEN Preset("bold", 13)
    ELSE IF IsSubHeaderLine(line) THEN Preset("bold", 12)
    ELSE Preset("normal", 11)

Piece(pre, text, post) == [pre |-> pre, text |-> text, post |-> post]
\* (variant: the sub-header test comes first)
WordMarkupSubHeaderFirst(line) ==
    IF IsSubHeaderLine(line) THEN Piece("\\par \\b \\fs22 ", line, "\\b0 \\par ")
    ELSE IF IsHeaderLine(line) THEN Piece("\\par \\b \\fs24 ", line, "\\b0 \\fs22 \\par ")
    ELSE Piece("", line, "\\par ")

\* the if / else if / else of formatForWord that wraps a non-blank line
WordMarkup(line) ==
    IF IsHeaderLine(line) THEN Piece("\\par \\b \\fs24 ", line, "\\b0 \\fs22 \\par ")
    ELSE IF IsSubHeaderLine(line) THEN Piece("\\par \\b \\fs22 ", line, "\\b0 \\par ")
    ELSE Piece("", line, "\\par ")

\* formatForWord: one piece of markup per line of the content, between the
\* RTF prologue and the closing brace
FormatForWord(content) ==
    LET lines == SplitLines(content)
    IN  [ i \in DOMAIN lines |->
            IF Trim(lines[i]) = <<>> THEN Piece("\\par ", <<>>, "")
            ELSE WordMarkup(Trim(lines[i])) ]

\* pdf.splitTextToSize(trimmedLine, maxWidth)
RECURSIVE SplitTextToSize(_, _)
SplitTextToSize(line, cols) ==
    IF Len(line) <= cols THEN << line >>
    ELSE << SubSeq(line, 1, cols) >> \o SplitTextToSize(SubSeq(line, cols + 1, Len(line)), cols)

\* what generatePDF does, in order: "skip" a blank line, "addPage", draw a
\* "text", leave a "gap" after a header; y is yPosition before, after is
\* yPosition after
PdfOp(kind, line, y, after, page, text, preset) ==
    [kind |-> kind, line |-> line, y |-> y, after |-> after, page |-> page,
     text |-> text, preset |-> preset]
NoPreset == Preset("", 0)
Pdf(y, page, ops) == [y |-> y, page |-> page, ops |-> ops]

\* (variant: the page is only left at its bottom edge)
PageCheckAtEdge(st, line) ==
    IF st.y > PageHeight
    THEN Pdf(Margin, st.page + 1,
             Append(st.ops, PdfOp("addPage", line, st.y, Margin, st.page + 1, <<>>, NoPreset)))
    ELSE st

\* if (yPosition > pageHeight - margin) { pdf.addPage(); yPosition = margin; }
PageCheck(st, line) ==
    IF st.y > PageHeight - Margin
    THEN Pdf(Margin, st.page + 1,
             Append(st.ops, PdfOp("addPage", line, st.y, Margin, st.page + 1, <<>>, NoPreset)))
    ELSE st

\* for (const wrappedLine of wrappedLines) { page check; pdf.text; yPosition += lineHeight }
RECURSIVE DrawWrapped(_, _, _, _)
DrawWrapped(wrapped, st, line, preset) ==
    IF wrapped = <<>> THEN st
    ELSE LET s1 == PageCheck(st, line)
             s2 == Pdf(s1.y + LineHeight, s1.page,
                       Append(s1.ops, PdfOp("text", line, s1.y, s1.y + LineHeight, s1.page,
                                            Head(wrapped), preset)))
         IN  DrawWrapped(Tail(wrapped), s2, line, preset)

\* the body of `for (const line of lines)` for line number i
PdfLine(lines, i, st, cols) ==
    LET t == Trim(lines[i])
    IN  IF t = <<>>
        THEN Pdf(st.y + HalfLine, st.page,
                 Append(st.ops, PdfOp("skip", i, st.y, st.y + HalfLine, st.page, <<>>, NoPreset)))
        ELSE LET s1 == PageCheck(st, i)
                 s2 == DrawWrapped(SplitTextToSize(t, cols), s1, i, PdfPreset(t))
             IN  IF IsHeaderLine(t) \/ IsSubHeaderLine(t)
                 THEN Pdf(s2.y + HalfLine, s2.page,
                          Append(s2.ops, PdfOp("gap", i, s2.y, s2.y + HalfLine, s2.page,
                                               <<>>, NoPreset)))
                 ELSE s2

\* the loop over the lines lo .. hi, in order: the first half, then the second
\* half from the state the first half left (the test on the page number, which
\* never decreases, has the first half computed before the second is begun)
RECURSIVE PdfLines(_, _, _, _, _)
PdfLines(lines, lo, hi, st, cols) ==
    IF lo > hi THEN st
    ELSE IF lo = hi THEN PdfLine(lines, lo, st, cols)
    ELSE LET mid   == (lo + hi) \div 2
             first == PdfLines(lines, lo, mid, st, cols)
         IN  IF first.page >= st.page THEN PdfLines(lines, mid + 1, hi, first, cols)
             ELSE first

\* generatePDF up to pdf.output: the document drawn for the content
RenderPDF(content, cols) ==
    LET lines == SplitLines(content)
    IN  PdfLines(lines, 1, Len(lines), Pdf(Margin, 1, <<>>), cols)

\* downloadBlob: object URL, synthetic anchor click, URL revoked at once
DownloadBlob(blob, filename) == << [name |-> filename, blob |-> blob] >>

\* generatePDF / generateDOCX: the downloads triggered, and whether it threw
GeneratePDF(content, filename, throws) ==
    IF throws THEN [dl |-> <<>>, threw |-> TRUE]
    ELSE [dl |-> DownloadBlob(Blob(PDF_MIME, "pdf", content), filename), threw |-> FALSE]

GenerateDOCX(content, filename, throws) ==
    IF throws THEN [dl |-> <<>>, threw |-> TRUE]
    ELSE [dl |-> DownloadBlob(Blob(DOCX_MIME, "rtf", content), filename), threw |-> FALSE]

\* (variant: the text is trimmed before it is written)
GenerateTXTTrimmed(content, filename) ==
    << [name |-> filename, blob |-> [type |-> TXT_MIME, fmt |-> "raw", text |-> Trim(content)]] >>

GenerateTXT(content, filename) ==
    DownloadBlob(Blob(TXT_MIME, "raw", content), filename)

\* (variant: the case 'application/msword' is missing)
PrimaryGeneratorNoMsword(mime) ==
    IF mime = PDF_MIME THEN "pdf"
    ELSE IF mime = DOCX_MIME THEN "docx"
    ELSE "txt"

\* the switch on fileMetadata.originalMimeType
PrimaryGenerator(mime) ==
    IF mime = PDF_MIME THEN "pdf"
    ELSE IF mime \in {DOCX_MIME, DOC_MIME} THEN "docx"
    ELSE "txt"

\* (variant: the catch block rethrows instead of falling back)
FallbackRethrows(content, base) == [dl |-> <<>>, rejected |-> TRUE]

\* the catch block of generateAndDownload
Fallback(content, base) ==
    [dl |-> GenerateTXT(content, Filename(base, "txt")), rejected |-> FALSE]

\* generateAndDownload: all downloads triggered, and whether the promise rejects.
\* `throws`: the PDF/Word generator called throws before it downloads.
GenerateAndDownload(content, company, meta, date, throws) ==
    LET base == BaseFilename(company, date)
        gen  == PrimaryGenerator(meta.originalMimeType)
        first == CASE gen = "pdf"  -> GeneratePDF(content, Filename(base, "pdf"), throws)
                   [] gen = "docx" -> GenerateDOCX(content, Filename(base, "docx"), throws)
                   [] OTHER        -> [dl |-> GenerateTXT(content, Filename(base, "txt")),
                                       threw |-> FALSE]
    IN  IF first.threw
        THEN LET fb == Fallback(content, base)
             IN  [dl |-> first.dl \o fb.dl, rejected |-> fb.rejected]
        ELSE [dl |-> first.dl, rejected |-> FALSE]

NoDl == [called |-> FALSE, content |-> <<>>, company |-> NoStr, meta |-> NoMeta,
         date |-> "", throws |-> FALSE, rejected |-> FALSE]


(*************************** review screen *********************************)
Slots == 1 .. (MaxNav + 1)
LoadIdle == [pc |-> "idle", id |-> "", call |-> NoCall, data |-> NoRecord]
LoadDone == [pc |-> "done", id |-> "", call |-> NoCall, data |-> NoRecord]

\* the button rendered whatever the feedback is
ButtonRenderedAlways == TRUE

\* the render of the 'Generate Updated Resume' button: {feedback && (...)}
ButtonRendered == Truthy(feedback)
ButtonEnabled  == ButtonRendered /\ ~isGenerating

\* the cleanup of the [imageUrl, resumeUrl] effect: both URLs of the previous
\* render are revoked when either changes
Revoked(live) == live \ {imageUrl, resumeUrl}

\* URL.createObjectURL followed by setResumeUrl / setImageUrl: the state
\* change re-runs the effect, whose cleanup revokes the two previous URLs; on
\* a component already torn down the setter does nothing and no cleanup runs
AfterCreate(live) ==
    IF unmounted THEN live \cup {nextUrl} ELSE Revoked(live) \cup {nextUrl}

\* loadResume up to its first await: kv.get(`resume:${id}`)
StartLoad(slot, rid) ==
    LET call == Issue("load", "kv.get", KeyOf(rid), NoPath)
    IN  /\ loads' = [loads EXCEPT ![slot] =
                        [pc |-> "kv", id |-> rid, call |-> call, data |-> NoRecord]]
        /\ sdkLog' = Logged(call)
        /\ store' = StoreAfterPassThrough(store)

\* first render: the [id, kv, fs] effect runs loadResume
Mount ==
    /\ ~mounted
    /\ mounted' = TRUE
    /\ StartLoad(1, id)
    /\ UNCHANGED << puterAvail, appVars, sdkVars, unmounted, id, navCount, imageUrl, resumeUrl,
                    feedback, fileMetadata, nextUrl, liveUrls, genVars, adVars >>

\* the route id changes: the [id, kv, fs] effect runs loadResume again
ChangeId(newId) ==
    /\ mounted
    /\ ~unmounted
    /\ navCount < MaxNav
    /\ newId # id
    /\ id' = newId
    /\ navCount' = navCount + 1
    /\ StartLoad(navCount + 2, newId)
    /\ UNCHANGED << puterAvail, appVars, sdkVars, mounted, unmounted, imageUrl, resumeUrl,
                    feedback, fileMetadata, nextUrl, liveUrls, genVars, adVars >>

\* the component is torn down: the cleanup of the [imageUrl, resumeUrl] effect
\* revokes the two URLs held in state; loadResume invocations in flight go on
Unmount ==
    /\ mounted
    /\ ~unmounted
    /\ unmounted' = TRUE
    /\ liveUrls' = Revoked(liveUrls)
    /\ UNCHANGED << puterAvail, appVars, sdkVars, sdkLog, store, mounted, id, navCount, loads,
                    imageUrl, resumeUrl, feedback, fileMetadata, nextUrl,
                    genVars, adVars >>

\* the SDK script finishes loading
PuterLoads ==
    /\ ~puterAvail
    /\ puterAvail' = TRUE
    /\ UNCHANGED << sdkVars, sdkLog, store, screenVars, genVars, adVars, appVars >>

LoadEnds(slot) == loads' = [loads EXCEPT ![slot] = LoadDone]

\* kv.get settles; JSON.parse; fs.read(data.resumePath) is issued
LoadKvSettle(slot, ok) ==
    LET l == loads[slot]
        v == IF l.call = NoCall THEN KvNone ELSE kvStore[l.call.key]
    IN  /\ l.pc = "kv"
        /\ (l.call = NoCall) => ok
        /\ kvStore' = IF ok THEN KvAfter(l.call, kvStore) ELSE kvStore
        /\ fsFiles' = IF ok THEN FsAfter(l.call, fsFiles) ELSE fsFiles
        /\ IF ok /\ v.kind = "json"
           THEN LET call == Issue("load", "fs.read", <<>>, FilePath(v.rec.resumePath))
                IN  /\ loads' = [loads EXCEPT ![slot] =
                                   [pc |-> "read1", id |-> l.id, call |-> call, data |-> v.rec]]
                    /\ sdkLog' = Logged(call)
                    /\ store' = StoreAfterPassThrough(store)
           ELSE /\ LoadEnds(slot)
                /\ UNCHANGED << sdkLog, store >>
        /\ UNCHANGED << puterAvail, appVars, sdkUser, mounted, unmounted, id, navCount, imageUrl,
                        resumeUrl, feedback, fileMetadata, nextUrl, liveUrls,
                        genVars, adVars >>

\* fs.read(resumePath) settles; setResumeUrl; fs.read(data.imagePath) is issued
LoadReadResumeSettle(slot, ok) ==
    LET l == loads[slot]
        blob == ok /\ l.call # NoCall
    IN  /\ l.pc = "read1"
        /\ (l.call = NoCall) => ok
        /\ IF ok
           THEN LET call == Issue("load", "fs.read", <<>>, FilePath(l.data.imagePath))
                IN  /\ loads' = [loads EXCEPT ![slot] =
                                   [pc |-> "read2", id |-> l.id, call |-> call, data |-> l.data]]
                    /\ sdkLog' = Logged(call)
                    /\ store' = StoreAfterPassThrough(store)
                    /\ resumeUrl' = IF blob /\ ~unmounted THEN nextUrl ELSE resumeUrl
                    /\ nextUrl' = IF blob THEN nextUrl + 1 ELSE nextUrl
                    /\ liveUrls' = IF blob THEN AfterCreate(liveUrls) ELSE liveUrls
           ELSE /\ LoadEnds(slot)
                /\ UNCHANGED << sdkLog, store, resumeUrl, nextUrl, liveUrls >>
        /\ UNCHANGED << puterAvail, appVars, sdkVars, mounted, unmounted, id, navCount, imageUrl,
                        feedback, fileMetadata, genVars, adVars >>

\* fs.read(imagePath) settles; setImageUrl, setFileMetadata, setFeedback
LoadReadImageSettle(slot, ok) ==
    LET l == loads[slot]
        blob == ok /\ l.call # NoCall
    IN  /\ l.pc = "read2"
        /\ (l.call = NoCall) => ok
        /\ LoadEnds(slot)
        /\ IF ok
           THEN /\ imageUrl' = IF blob /\ ~unmounted THEN nextUrl ELSE imageUrl
                /\ nextUrl' = IF blob THEN nextUrl + 1 ELSE nextUrl
                /\ liveUrls' = IF blob THEN AfterCreate(liveUrls) ELSE liveUrls
                /\ fileMetadata' = IF unmounted THEN fileMetadata
                                   ELSE IF l.data.fileMetadata # AbsentMeta
                                   THEN l.data.fileMetadata ELSE DefaultMeta
                /\ feedback' = IF unmounted THEN feedback ELSE l.data.feedback
           ELSE UNCHANGED << imageUrl, nextUrl, liveUrls, fileMetadata, feedback >>
        /\ UNCHANGED << puterAvail, appVars, sdkVars, sdkLog, store, mounted, unmounted, id, navCount,
                        resumeUrl, genVars, adVars >>


(******************** ai.generateUpdatedResume *****************************)
T1 == <<"A", "B">>
T2 == <<"c", "d">>
T3 == <<" ", "A", "\n">>
Block(text) == [text |-> text]

\* an AI chat response: undefined, a message without content, a message whose
\* content is a string, or one whose content is a list of content blocks
AiResp(kind, s, blocks) == [kind |-> kind, s |-> s, blocks |-> blocks]
AiResponses ==
    { AiResp("undefined", <<>>, <<>>), AiResp("nocontent", <<>>, <<>>) }
    \cup { AiResp("string", t, <<>>) : t \in {<<>>, <<" ">>, T1, T3} }
    \cup { AiResp("blocks", <<>>, b) :
             b \in { <<>>, <<Block(NoStr)>>, <<Block(Str(<<"\n">>))>>,
                     <<Block(Str(T1))>>, <<Block(Str(T2)), Block(Str(T1))>>,
                     <<Block(NoStr), Block(Str(T1))>> } }

\* !aiResponse || !aiResponse.message?.content
NoContent(r) ==
    \/ r.kind \in {"undefined", "nocontent"}
    \/ r.kind = "string" /\ r.s = <<>>

\* (variant: the first block that has a text is used)
ExtractContentAnyBlock(r) ==
    IF r.kind = "string" THEN r.s
    ELSE IF r.blocks = <<>> THEN <<>>
    ELSE IF r.blocks[1].text.t = "string" /\ r.blocks[1].text.v # <<>>
         THEN r.blocks[1].text.v
    ELSE IF Len(r.blocks) > 1 THEN OrElse(r.blocks[2].text, <<>>)
    ELSE <<>>

\* (variant: the content is trimmed before it is returned)
ExtractContentTrimmed(r) ==
    IF r.kind = "string" THEN Trim(r.s)
    ELSE IF r.blocks = <<>> THEN <<>>
    ELSE Trim(OrElse(r.blocks[1].text, <<>>))

\* typeof content === "string" ? content : content[0]?.text || ""
ExtractContent(r) ==
    IF r.kind = "string" THEN r.s
    ELSE IF r.blocks = <<>> THEN <<>>
    ELSE OrElse(r.blocks[1].text, <<>>)

Result(success, content, savedPath, error) ==
    [success |-> success, updatedResumeContent |-> content,
     savedPath |-> savedPath, error |-> error]
NoResult == Result(FALSE, <<>>, NoPath, UNDEF)
Failure(msg) == Result(FALSE, <<>>, NoPath, msg)

\* `/resumes/updated/updated_resume_${company}_${timestamp}.txt`
UpdatedPath(company, stamp) ==
    [dir |-> "/resumes/updated/", company |-> SanitizeCompany(company),
     stamp |-> stamp, ext |-> "txt"]

\* (variant: the generated text is stored over the record instead)
SaveCallIntoKv(by, company, stamp) ==
    SdkCall(by, "kv.set", KeyOf("1"), NoPath)

\* the one write generateUpdatedResume performs: puter.fs.write(filepath, content)
SaveCall(by, company, stamp) ==
    SdkCall(by, "fs.write", <<>>, UpdatedPath(company, stamp))

\* (variant: the white-space test on the extracted text is missing)
AfterChatAcceptsBlank(ok, err, resp) ==
    IF ~ok THEN Failure(ErrMessage(err, "Unknown error occurred"))
    ELSE IF NoContent(resp) THEN Failure("Failed to generate resume content from AI")
    ELSE Result(TRUE, ExtractContent(resp), NoPath, UNDEF)

\* generateUpdatedResume after the chat call has settled, up to the fs.write:
\* a failure result, or the extracted content (error UNDEF)
AfterChat(ok, err, resp) ==
    IF ~ok THEN Failure(ErrMessage(err, "Unknown error occurred"))
    ELSE IF NoContent(resp) THEN Failure("Failed to generate resume content from AI")
    ELSE IF Trim(ExtractContent(resp)) = <<>> THEN Failure("Generated resume content is empty")
    ELSE Result(TRUE, ExtractContent(resp), NoPath, UNDEF)

(********************* handleGenerateUpdatedResume *************************)
NoCalls == [kvget |-> 0, chat |-> 0, write |-> 0]
Count(call) == IF call = NoCall THEN 0 ELSE 1

Upper(ext) ==
    CASE ext = "pdf" -> "PDF" [] ext = "docx" -> "DOCX" [] ext = "doc" -> "DOC"
      [] ext = "txt" -> "TXT" [] ext = "md" -> "MD" [] ext = "png" -> "PNG"
      [] OTHER -> ext

Success(format, saved) == [format |-> format, saved |-> saved]
NoSuccess == Success(NULL, NoPath)

\* the options object of ai.generateUpdatedResume (additionalInstructions is
\* a constant text)
\* (variant: the feedback is left out of the options)
OptionsWithoutFeedback(originalResume, jobDescription, companyName, fb) ==
    [originalResume |-> originalResume, jobDescription |-> jobDescription,
     companyName |-> companyName, feedback |-> UNDEF]

Options(originalResume, jobDescription, companyName, fb) ==
    [originalResume |-> originalResume, jobDescription |-> jobDescription,
     companyName |-> companyName, feedback |-> fb]
NoOptions == Options(UNDEF, UNDEF, NoStr, UNDEF)
NoResp == AiResp("none", <<>>, <<>>)

\* (variant: no finally block, isGenerating is left as it is)
GenEndStillGenerating ==
    /\ isGenerating' = isGenerating
    /\ genPc' = "idle"
    /\ genCall' = NoCall
    /\ genData' = NoRecord
    /\ genFile' = NoMeta
    /\ genFeedback' = NULL
    /\ genResult' = NoResult
    /\ genOptions' = NoOptions
    /\ previews' = <<>>
    /\ downloads' = <<>>
    /\ dlInfo' = NoDl

\* finally { setIsGenerating(false) }; the handler returns and its locals go
\* out of scope
GenEnd ==
    /\ isGenerating' = FALSE
    /\ genPc' = "idle"
    /\ genCall' = NoCall
    /\ genData' = NoRecord
    /\ genFile' = NoMeta
    /\ genFeedback' = NULL
    /\ genResult' = NoResult
    /\ genOptions' = NoOptions
    /\ previews' = <<>>
    /\ downloads' = <<>>
    /\ dlInfo' = NoDl

\* (variant: the catch block swallows the error without a message)
GenCatchSilent(kind, msg) ==
    /\ generationError' = generationError
    /\ genFailures' = genFailures \cup {kind}
    /\ sdkLog' = sdkLog
    /\ genCalls' = genCalls
    /\ GenEnd

\* (variant: the catch block reads the record once more)
GenCatchRetry(kind, msg) ==
    LET call == SdkCall("gen", "kv.get", KeyOf(id), NoPath)
    IN  /\ generationError' = msg
        /\ genFailures' = genFailures \cup {kind}
        /\ sdkLog' = sdkLog \cup {call}
        /\ genCalls' = [genCalls EXCEPT !.kvget = @ + 1]
        /\ GenEnd

\* catch (error) { setGenerationError(error.message or the fallback) }
GenCatch(kind, msg) ==
    /\ generationError' = msg
    /\ genFailures' = genFailures \cup {kind}
    /\ sdkLog' = sdkLog
    /\ genCalls' = genCalls
    /\ GenEnd

\* (variant: a strict null test, which lets an absent feedback through)
FeedbackMissingStrict == feedback = NULL

\* if (!feedback)
FeedbackMissing == ~Truthy(feedback)

\* entry of the handler: the two guards, then kv.get(`resume:${id}`) is issued
HandleGenerateUpdatedResume ==
    /\ mounted
    /\ ~unmounted
    /\ genPc = "idle"
    /\ reqCount < MaxReqs
    /\ reqCount' = reqCount + 1
    /\ IF FeedbackMissing
       THEN /\ generationError' = "No feedback available to generate updated resume"
            /\ genEntry' = "no feedback"
            /\ UNCHANGED << sdkLog, store, isGenerating, generationSuccess, genPc,
                            genCall, genData, genFile, genFeedback, genResult,
                            genOptions, aiResp, genCalls, genFailures, previews,
                            downloads, dlInfo >>
       ELSE IF fileMetadata = NoMeta
       THEN /\ generationError' = "File metadata not available"
            /\ genEntry' = "no metadata"
            /\ UNCHANGED << sdkLog, store, isGenerating, generationSuccess, genPc,
                            genCall, genData, genFile, genFeedback, genResult,
                            genOptions, aiResp, genCalls, genFailures, previews,
                            downloads, dlInfo >>
       ELSE LET call == Issue("gen", "kv.get", KeyOf(id), NoPath)
            IN  /\ isGenerating' = TRUE
                /\ generationError' = NULL
                /\ generationSuccess' = NoSuccess
                /\ genEntry' = "started"
                /\ genPc' = "kv"
                /\ genCall' = call
                /\ sdkLog' = Logged(call)
                /\ store' = StoreAfterPassThrough(store)
                /\ genCalls' = [NoCalls EXCEPT !.kvget = Count(call)]
                /\ genFailures' = IF call = NoCall THEN {"sdk unavailable"} ELSE {}
                /\ genFeedback' = feedback
                /\ genFile' = fileMetadata
                /\ aiResp' = NoResp
                /\ UNCHANGED << genData, genResult, genOptions, previews, downloads,
                                dlInfo >>
    /\ UNCHANGED << puterAvail, appVars, sdkVars, screenVars, twin, rendered, adVars >>

\* kv.get settles; JSON.parse; ai.generateUpdatedResume issues puter.ai.chat
GenKvSettle(ok, err) ==
    LET v == IF genCall = NoCall THEN KvNone ELSE kvStore[genCall.key]
    IN  /\ genPc = "kv"
        /\ (genCall = NoCall) => ok
        /\ kvStore' = IF ok THEN KvAfter(genCall, kvStore) ELSE kvStore
        /\ fsFiles' = IF ok THEN FsAfter(genCall, fsFiles) ELSE fsFiles
        /\ IF ~ok
           THEN /\ GenCatch("kv rejected", ErrMessage(err, "Failed to generate updated resume"))
           ELSE IF v.kind = "none"
           THEN /\ GenCatch("record not found", "Resume data not found")
           ELSE IF v.kind = "bad"
           THEN /\ GenCatch("JSON parse error", "Unexpected token in JSON")
           ELSE LET call == Issue("gen", "ai.chat", <<>>, NoPath)
                IN  /\ genData' = v.rec
                    /\ genOptions' = Options(Get(v.rec, "rawText"), Get(v.rec, "jd"),
                                             Get(v.rec, "companyName"), genFeedback)
                    /\ genPc' = "ai"
                    /\ genCall' = call
                    /\ sdkLog' = Logged(call)
                    /\ genCalls' = [genCalls EXCEPT !.chat = @ + Count(call)]
                    /\ genFailures' = IF call = NoCall THEN {"sdk unavailable"} ELSE {}
                    /\ UNCHANGED << generationError, isGenerating, genFile, genFeedback,
                                    genResult, previews, downloads, dlInfo >>
        /\ UNCHANGED << puterAvail, appVars, sdkUser, store, screenVars, generationSuccess,
                        aiResp, genEntry, reqCount, twin, rendered, adVars >>

\* puter.ai.chat settles; the content is extracted; puter.fs.write is issued
GenAiSettle(ok, err, resp, stamp) ==
    LET r == IF genCall = NoCall THEN Failure(NotAvailable) ELSE AfterChat(ok, err, resp)
        kind == IF genCall = NoCall THEN "sdk unavailable"
                ELSE IF ~ok THEN "AI call failure" ELSE "empty AI output"
    IN  /\ genPc = "ai"
        /\ (genCall = NoCall) => ok
        /\ aiResp' = IF ok /\ genCall # NoCall THEN resp ELSE NoResp
        /\ IF r.success
           THEN LET call == SaveCall("gen", Get(genData, "companyName"), stamp)
                IN  /\ genResult' = [r EXCEPT !.savedPath = call.path]
                    /\ genPc' = "write"
                    /\ genCall' = call
                    /\ sdkLog' = Logged(call)
                    /\ genCalls' = [genCalls EXCEPT !.write = @ + Count(call)]
                    /\ UNCHANGED << generationError, isGenerating, genFailures, genData,
                                    genFile, genFeedback, genOptions, previews,
                                    downloads, dlInfo >>
           ELSE /\ GenCatch(kind, IF Truthy(r.error) THEN r.error
                                  ELSE "Failed to generate updated resume")
        /\ UNCHANGED << puterAvail, appVars, sdkVars, store, screenVars, generationSuccess,
                        genEntry, reqCount, twin, rendered, adVars >>

\* createPreviewWindow: window.open may hand back null
CreatePreviewWindow(content, company, blocked) ==
    IF blocked THEN <<>>
    ELSE << [content |-> content, title |-> OrElse(company, Optimized)] >>

\* puter.fs.write settles (a rejection is swallowed); the handler opens the
\* preview and runs generateAndDownload
GenWriteSettle(ok, blocked, date, throws) ==
    LET content == genResult.updatedResumeContent
        company == Get(genData, "companyName")
        dl == GenerateAndDownload(content, company, genFile, date, throws)
        threw == throws /\ PrimaryGenerator(genFile.originalMimeType) # "txt"
    IN  /\ genPc = "write"
        /\ kvStore' = IF ok THEN KvAfter(genCall, kvStore) ELSE kvStore
        /\ fsFiles' = IF ok THEN FsAfter(genCall, fsFiles) ELSE fsFiles
        /\ genFailures' = genFailures
                            \cup (IF ok THEN {} ELSE {"save failure"})
                            \cup (IF threw THEN {"format-generation exception"} ELSE {})
        /\ previews' = CreatePreviewWindow(content, company, blocked)
        /\ downloads' = dl.dl
        /\ dlInfo' = [called |-> TRUE, content |-> content, company |-> company,
                      meta |-> genFile, date |-> date, throws |-> threw,
                      rejected |-> dl.rejected]
        /\ genPc' = "download"
        /\ genCall' = NoCall
        /\ UNCHANGED << puterAvail, appVars, sdkUser, sdkLog, store, screenVars, isGenerating,
                        generationError, generationSuccess, genData, genFile,
                        genFeedback, genResult, genOptions, aiResp, genCalls,
                        genEntry, reqCount, twin, rendered, adVars >>

\* generateAndDownload settles: the success banner, or the catch block
GenDownloadSettle ==
    /\ genPc = "download"
    /\ IF dlInfo.rejected
       THEN /\ GenCatch("download failure", "Failed to generate updated resume")
            /\ UNCHANGED generationSuccess
       ELSE /\ generationSuccess' =
                   Success(Upper(genFile.originalExtension), genResult.savedPath)
            /\ GenEnd
            /\ UNCHANGED << generationError, genFailures, sdkLog, genCalls >>
    /\ UNCHANGED << puterAvail, appVars, sdkVars, store, screenVars, aiResp, genEntry,
                    reqCount, twin, rendered, adVars >>

\* What a request shows once ai.generateUpdatedResume has returned a
\* successful result (lines 488-517): the preview, the downloads, and the
\* success banner or the message of the catch block.
RequestOutputs(content, company, meta, saved, blocked, date, throws) ==
    LET dl == GenerateAndDownload(content, company, meta, date, throws)
    IN  [ previews  |-> CreatePreviewWindow(content, company, blocked),
          downloads |-> dl.dl,
          success   |-> IF dl.rejected THEN NoSuccess
                        ELSE Success(Upper(meta.originalExtension), saved),
          error     |-> IF dl.rejected THEN "Failed to generate updated resume"
                        ELSE NULL ]
NoOutputs == [previews |-> <<>>, downloads |-> <<>>, success |-> NoSuccess, error |-> NULL]
NoTwin == [called |-> FALSE, metaA |-> NoMeta, metaB |-> NoMeta,
           a |-> NoOutputs, b |-> NoOutputs]

\* the same successful result handled twice, under two file metadata values
TwinRequests(content, company, metaA, metaB, saved, blocked, date, throws) ==
    /\ ~twin.called
    /\ twin' = [called |-> TRUE, metaA |-> metaA, metaB |-> metaB,
                a |-> RequestOutputs(content, company, metaA, saved, blocked, date, throws),
                b |-> RequestOutputs(content, company, metaB, saved, blocked, date, throws)]
    /\ UNCHANGED << puterAvail, appVars, sdkVars, sdkLog, store, screenVars, isGenerating,
                    generationError, generationSuccess, genPc, genCall, genData,
                    genFile, genFeedback, genResult, genOptions, aiResp, genCalls,
                    genFailures, genEntry, reqCount, previews, downloads, dlInfo,
                    rendered, adVars >>

NoRender == [called |-> FALSE, content |-> <<>>, cols |-> 0,
             pdf |-> Pdf(Margin, 1, <<>>), word |-> <<>>]

\* generatePDF and generateDOCX (formatForWord) applied to one content
Render(content, cols) ==
    /\ ~rendered.called
    /\ rendered' = [called |-> TRUE, content |-> content, cols |-> cols,
                    pdf |-> RenderPDF(content, cols), word |-> FormatForWord(content)]
    /\ UNCHANGED << puterAvail, appVars, sdkVars, sdkLog, store, screenVars, isGenerating,
                    generationError, generationSuccess, genPc, genCall, genData,
                    genFile, genFeedback, genResult, genOptions, aiResp, genCalls,
                    genFailures, genEntry, reqCount, previews, downloads, dlInfo,
                    twin, adVars >>

(************************ platform adapter *********************************)
AuthMethods == {"signIn", "signOut", "refreshUser", "checkAuthStatus"}
\* adapter method -> the SDK function it passes through to
PassThrough ==
    [ m \in {"fs.write", "fs.read", "fs.readDir", "fs.upload", "fs.delete",
             "kv.get", "kv.set", "kv.delete", "kv.list", "kv.flush",
             "ai.chat", "ai.feedback", "ai.img2txt"} |->
        CASE m = "fs.readDir"  -> "fs.readdir"
          [] m = "ai.feedback" -> "ai.chat"
          [] OTHER             -> m ]
Methods == AuthMethods \cup DOMAIN PassThrough \cup {"ai.generateUpdatedResume"}

Outcome(settled, rejected, value, result, failed) ==
    [settled |-> settled, rejected |-> rejected, value |-> value,
     result |-> result, failed |-> failed]
NoOutcome == Outcome(FALSE, FALSE, UNDEF, NoResult, FALSE)
Resolved(value)     == Outcome(TRUE, FALSE, value, NoResult, FALSE)
ResolvedFail(value) == Outcome(TRUE, FALSE, value, NoResult, TRUE)
Rejected            == Outcome(TRUE, TRUE, UNDEF, NoResult, TRUE)

\* set({ isLoading: true, error: null })
SetLoading(s) == [s EXCEPT !.isLoading = TRUE, !.error = NULL]
\* set({ auth: { user, isAuthenticated, ..., getUser: () => user }, isLoading: false })
SetAuth(s, user, authed) ==
    [s EXCEPT !.user = user, !.isAuthenticated = authed, !.getUser = user,
              !.isLoading = FALSE]

\* auth.getUser(): the initial closure reads get().auth.user, the closures set
\* by checkAuthStatus, signOut and refreshUser return the user they captured
GetUser(s) == IF s.getUser = "live" THEN s.user ELSE s.getUser

AdCallOf(api) == SdkCall("adapter", api, <<>>, NoPath)

\* (variant: no getPuter() test, the method dereferences the missing SDK)
AdapterUnavailableThrows(m) ==
    /\ adCall' = NoCall
    /\ adCalls' = <<>>
    /\ adPc' = "done"
    /\ sdkLog' = sdkLog
    /\ store' = store
    /\ adOutcome' = Rejected

\* what the methods do when getPuter() returns null
AdapterUnavailable(m) ==
    /\ adCall' = NoCall
    /\ adCalls' = <<>>
    /\ adPc' = "done"
    /\ sdkLog' = sdkLog
    /\ IF m = "ai.generateUpdatedResume"
       THEN /\ store' = store
            /\ adOutcome' = [ResolvedFail(UNDEF) EXCEPT !.result = Failure(NotAvailable)]
       ELSE /\ store' = SetError(store, NotAvailable)
            /\ adOutcome' = ResolvedFail(IF m = "checkAuthStatus" THEN "false" ELSE UNDEF)

\* checkAuthStatus with the SDK present, up to `await puter.auth.isSignedIn()`
CheckAuthStatusBegins ==
    /\ store' = SetLoading(store)
    /\ adCall' = AdCallOf("auth.isSignedIn")
    /\ adCalls' = Append(adCalls, "auth.isSignedIn")
    /\ sdkLog' = sdkLog \cup {AdCallOf("auth.isSignedIn")}
    /\ adPc' = "isSignedIn"

\* a method of the store is called: getPuter(), then its first SDK call
AdapterCall(m, key) ==
    /\ adPc = "idle"
    /\ adCount < MaxCalls
    /\ adCount' = adCount + 1
    /\ adMethod' = m
    /\ IF ~puterAvail THEN AdapterUnavailable(m)
       ELSE IF m = "checkAuthStatus"
       THEN /\ CheckAuthStatusBegins
            /\ adOutcome' = NoOutcome
       ELSE LET api == CASE m = "signIn"      -> "auth.signIn"
                         [] m = "signOut"     -> "auth.signOut"
                         [] m = "refreshUser" -> "auth.getUser"
                         [] m = "ai.generateUpdatedResume" -> "ai.chat"
                         [] OTHER -> PassThrough[m]
                call == SdkCall("adapter", api,
                                IF api \in {"kv.get", "kv.set", "kv.delete"} THEN key ELSE <<>>,
                                IF api = "fs.write" THEN FilePath("/f") ELSE NoPath)
            IN  /\ adCall' = call
                /\ adCalls' = <<api>>
                /\ sdkLog' = sdkLog \cup {call}
                /\ adPc' = IF m \in AuthMethods \cup {"ai.generateUpdatedResume"}
                           THEN api ELSE "passthrough"
                /\ store' = IF m \in AuthMethods THEN SetLoading(store) ELSE store
                /\ adOutcome' = NoOutcome
    /\ UNCHANGED << puterAvail, appVars, sdkVars, screenVars, genVars >>

\* the SDK promise a pass-through method returned settles
PassThroughSettle(ok) ==
    /\ adPc = "passthrough"
    /\ kvStore' = IF ok THEN KvAfter(adCall, kvStore) ELSE kvStore
    /\ fsFiles' = IF ok THEN FsAfter(adCall, fsFiles) ELSE fsFiles
    /\ adOutcome' = IF ok THEN Resolved("value") ELSE Rejected
    /\ adPc' = "done"
    /\ adCall' = NoCall
    /\ UNCHANGED << puterAvail, appVars, sdkUser, sdkLog, store, screenVars, genVars,
                    adMethod, adCalls, adCount >>

\* signIn: puter.auth.signIn() settles; on success checkAuthStatus() is awaited
SignInSettle(ok, err) ==
    /\ adPc = "auth.signIn"
    /\ sdkUser' = IF ok THEN "U1" ELSE sdkUser
    /\ IF ok
       THEN /\ CheckAuthStatusBegins
            /\ adOutcome' = NoOutcome
       ELSE /\ store' = SetError(store, ErrMessage(err, "Sign in failed"))
            /\ adOutcome' = ResolvedFail(UNDEF)
            /\ adPc' = "done"
            /\ adCall' = NoCall
            /\ UNCHANGED << adCalls, sdkLog >>
    /\ UNCHANGED << puterAvail, appVars, kvStore, fsFiles, screenVars, genVars, adMethod, adCount >>

\* checkAuthStatus: puter.auth.isSignedIn() settles
IsSignedInSettle(ok, err) ==
    /\ adPc = "isSignedIn"
    /\ IF ~ok
       THEN /\ store' = SetError(store, ErrMessage(err, "Failed to check auth status"))
            /\ adOutcome' = ResolvedFail(IF adMethod = "signIn" THEN UNDEF ELSE "false")
            /\ adPc' = "done"
            /\ adCall' = NoCall
            /\ UNCHANGED << adCalls, sdkLog >>
       ELSE IF sdkUser # NULL
       THEN /\ adCall' = AdCallOf("auth.getUser")
            /\ adCalls' = Append(adCalls, "auth.getUser")
            /\ sdkLog' = sdkLog \cup {AdCallOf("auth.getUser")}
            /\ adPc' = "getUser"
            /\ UNCHANGED << store, adOutcome >>
       ELSE /\ store' = SetAuth(store, NULL, FALSE)
            /\ adOutcome' = Resolved(IF adMethod = "signIn" THEN UNDEF ELSE "false")
            /\ adPc' = "done"
            /\ adCall' = NoCall
            /\ UNCHANGED << adCalls, sdkLog >>
    /\ UNCHANGED << puterAvail, appVars, sdkVars, screenVars, genVars, adMethod, adCount >>

\* checkAuthStatus: puter.auth.getUser() settles
GetUserSettle(ok, err) ==
    /\ adPc = "getUser"
    /\ ok => sdkUser # NULL
    /\ IF ok
       THEN /\ store' = SetAuth(store, sdkUser, TRUE)
            /\ adOutcome' = Resolved(IF adMethod = "signIn" THEN UNDEF ELSE "true")
       ELSE /\ store' = SetError(store, ErrMessage(err, "Failed to check auth status"))
            /\ adOutcome' = ResolvedFail(IF adMethod = "signIn" THEN UNDEF ELSE "false")
    /\ adPc' = "done"
    /\ adCall' = NoCall
    /\ UNCHANGED << puterAvail, appVars, sdkVars, sdkLog, screenVars, genVars, adMethod,
                    adCalls, adCount >>

\* signOut: puter.auth.signOut() settles
SignOutSettle(ok, err) ==
    /\ adPc = "auth.signOut"
    /\ sdkUser' = IF ok THEN NULL ELSE sdkUser
    /\ IF ok
       THEN /\ store' = SetAuth(store, NULL, FALSE)
            /\ adOutcome' = Resolved(UNDEF)
       ELSE /\ store' = SetError(store, ErrMessage(err, "Sign out failed"))
            /\ adOutcome' = ResolvedFail(UNDEF)
    /\ adPc' = "done"
    /\ adCall' = NoCall
    /\ UNCHANGED << puterAvail, appVars, kvStore, fsFiles, sdkLog, screenVars, genVars,
                    adMethod, adCalls, adCount >>

\* refreshUser: puter.auth.getUser() settles
RefreshUserSettle(ok, err) ==
    /\ adPc = "auth.getUser"
    /\ ok => sdkUser # NULL
    /\ IF ok
       THEN /\ store' = SetAuth(store, sdkUser, TRUE)
            /\ adOutcome' = Resolved(UNDEF)
       ELSE /\ store' = SetError(store, ErrMessage(err, "Failed to refresh user"))
            /\ adOutcome' = ResolvedFail(UNDEF)
    /\ adPc' = "done"
    /\ adCall' = NoCall
    /\ UNCHANGED << puterAvail, appVars, sdkVars, sdkLog, screenVars, genVars, adMethod,
                    adCalls, adCount >>

\* generateUpdatedResume called directly: puter.ai.chat settles
AdChatSettle(ok, err, resp, company, stamp) ==
    LET r == AfterChat(ok, err, resp)
    IN  /\ adPc = "ai.chat"
        /\ IF r.success
           THEN LET call == SaveCall("adapter", company, stamp)
                IN  /\ adOutcome' = [NoOutcome EXCEPT
                                       !.result = [r EXCEPT !.savedPath = call.path]]
                    /\ adCall' = call
                    /\ adCalls' = Append(adCalls, "fs.write")
                    /\ sdkLog' = sdkLog \cup {call}
                    /\ adPc' = "fs.write"
           ELSE /\ adOutcome' = [ResolvedFail(UNDEF) EXCEPT !.result = r]
                /\ adCall' = NoCall
                /\ adPc' = "done"
                /\ UNCHANGED << adCalls, sdkLog >>
        /\ UNCHANGED << puterAvail, appVars, sdkVars, store, screenVars, genVars, adMethod, adCount >>

\* generateUpdatedResume called directly: puter.fs.write settles
AdWriteSettle(ok) ==
    /\ adPc = "fs.write"
    /\ kvStore' = IF ok THEN KvAfter(adCall, kvStore) ELSE kvStore
    /\ fsFiles' = IF ok THEN FsAfter(adCall, fsFiles) ELSE fsFiles
    /\ adOutcome' = [adOutcome EXCEPT !.settled = TRUE]
    /\ adCall' = NoCall
    /\ adPc' = "done"
    /\ UNCHANGED << puterAvail, appVars, sdkUser, sdkLog, store, screenVars, genVars,
                    adMethod, adCalls, adCount >>

\* the caller has taken the result
AdapterReturn ==
    /\ adPc = "done"
    /\ adPc' = "idle"
    /\ adMethod' = "none"
    /\ adCalls' = <<>>
    /\ adOutcome' = NoOutcome
    /\ UNCHANGED << puterAvail, appVars, sdkVars, sdkLog, store, screenVars, genVars,
                    adCall, adCount >>

(******************** auth operations side by side ************************)
(* checkAuthStatus, signIn, signOut and refreshUser are async functions over *)
(* one store: a second one may be called while the first awaits the SDK.     *)
(* An awaited SDK call is served by the platform at some moment (it reads or *)
(* changes the signed-in user then) and its promise settles later.           *)
AuthSlots == 1 .. MaxOps
Reply(ok, value, err) == [ok |-> ok, value |-> value, err |-> err]
NoReply == Reply(FALSE, UNDEF, "")
\* one operation: its method, the SDK function it awaits, whether the platform
\* has served that call, the reply, whether any of its calls was rejected
AuthOp(m, pc, served, reply, rejected) ==
    [m |-> m, pc |-> pc, served |-> served, reply |-> reply, rejected |-> rejected]
IdleOp == AuthOp("none", "idle", FALSE, NoReply, FALSE)
Awaiting(m, api) == AuthOp(m, api, FALSE, NoReply, FALSE)
Finished(op, rejected) == AuthOp(op.m, "done", FALSE, NoReply, rejected)
AuthSettled == \A slot \in AuthSlots : authOps[slot].pc \in {"idle", "done"}

\* the first SDK function each auth method awaits
FirstApi(m) ==
    CASE m = "signIn"          -> "auth.signIn"
      [] m = "signOut"         -> "auth.signOut"
      [] m = "refreshUser"     -> "auth.getUser"
      [] m = "checkAuthStatus" -> "auth.isSignedIn"

\* an auth method is called: getPuter(), set({ isLoading: true, error: null }),
\* then its first SDK call
AuthBegin(slot, m) ==
    /\ authOps[slot].pc = "idle"
    /\ \A s \in AuthSlots : s < slot => authOps[s].pc # "idle"
    /\ IF puterAvail
       THEN /\ store' = SetLoading(store)
            /\ authOps' = [authOps EXCEPT ![slot] = Awaiting(m, FirstApi(m))]
            /\ sdkLog' = sdkLog \cup {AdCallOf(FirstApi(m))}
       ELSE /\ store' = SetError(store, NotAvailable)
            /\ authOps' = [authOps EXCEPT ![slot] = Finished(Awaiting(m, "done"), FALSE)]
            /\ sdkLog' = sdkLog
    /\ UNCHANGED << puterAvail, sdkVars, screenVars, genVars, adVars, shellVars >>

\* the platform serves the SDK call an operation awaits
SdkServes(slot, ok, err) ==
    LET op == authOps[slot]
        value == CASE op.pc = "auth.isSignedIn" -> IF sdkUser # NULL THEN "true" ELSE "false"
                   [] op.pc = "auth.getUser"    -> sdkUser
                   [] OTHER                     -> UNDEF
    IN  /\ op.pc \notin {"idle", "done"}
        /\ ~op.served
        /\ (op.pc = "auth.getUser" /\ ok) => sdkUser # NULL
        /\ sdkUser' = IF ok /\ op.pc = "auth.signIn" THEN "U1"
                      ELSE IF ok /\ op.pc = "auth.signOut" THEN NULL
                      ELSE sdkUser
        /\ authOps' = [authOps EXCEPT ![slot] =
                          [op EXCEPT !.served = TRUE,
                                     !.reply = IF ok THEN Reply(TRUE, value, "")
                                               ELSE Reply(FALSE, UNDEF, err)]]
        /\ UNCHANGED << puterAvail, kvStore, fsFiles, sdkLog, store, screenVars, genVars,
                        adVars, shellVars >>

\* the fallback message of the catch block an SDK rejection lands in
CatchMessage(m, api) ==
    CASE api = "auth.signIn"  -> "Sign in failed"
      [] api = "auth.signOut" -> "Sign out failed"
      [] m = "refreshUser"    -> "Failed to refresh user"
      [] OTHER                -> "Failed to check auth status"

\* the awaited promise settles and the operation runs on to its next await or
\* to its end
AuthSettle(slot) ==
    LET op == authOps[slot]
        r  == op.reply
    IN  /\ op.pc \notin {"idle", "done"}
        /\ op.served
        /\ IF ~r.ok
           THEN /\ store' = SetError(store, ErrMessage(r.err, CatchMessage(op.m, op.pc)))
                /\ authOps' = [authOps EXCEPT ![slot] = Finished(op, TRUE)]
                /\ sdkLog' = sdkLog
           ELSE IF op.pc = "auth.signIn"
           THEN /\ store' = SetLoading(store)
                /\ authOps' = [authOps EXCEPT ![slot] = Awaiting(op.m, "auth.isSignedIn")]
                /\ sdkLog' = sdkLog \cup {AdCallOf("auth.isSignedIn")}
           ELSE IF op.pc = "auth.isSignedIn" /\ r.value = "true"
           THEN /\ store' = store
                /\ authOps' = [authOps EXCEPT ![slot] = Awaiting(op.m, "auth.getUser")]
                /\ sdkLog' = sdkLog \cup {AdCallOf("auth.getUser")}
           ELSE /\ store' = IF op.pc = "auth.getUser" THEN SetAuth(store, r.value, TRUE)
                            ELSE SetAuth(store, NULL, FALSE)
                /\ authOps' = [authOps EXCEPT ![slot] = Finished(op, FALSE)]
                /\ sdkLog' = sdkLog
        /\ UNCHANGED << puterAvail, sdkVars, screenVars, genVars, adVars, shellVars >>

(****************************** init() *************************************)
(* init() starts the auth check at once when the SDK is there; otherwise it  *)
(* polls getPuter() on a 100 ms interval and gives up on a 10 s timeout. The *)
(* ticks and the timeout are separate timer tasks: the SDK script may finish *)
(* loading between any two of them.                                          *)
Poll(called, interval, timeout, ticks) ==
    [called |-> called, interval |-> interval, timeout |-> timeout, ticks |-> ticks]
NotPolling == Poll(FALSE, FALSE, FALSE, 0)
LoadTimeoutMessage == "Puter.js failed to load within 10 seconds"

\* set({ puterReady: true }); checkAuthStatus() up to its first await
PuterReady(slot) ==
    /\ authOps[slot].pc = "idle"
    /\ \A s \in AuthSlots : s < slot => authOps[s].pc # "idle"
    /\ store' = SetLoading([store EXCEPT !.puterReady = TRUE])
    /\ authOps' = [authOps EXCEPT ![slot] = Awaiting("checkAuthStatus", "auth.isSignedIn")]
    /\ sdkLog' = sdkLog \cup {AdCallOf("auth.isSignedIn")}

\* init() is called
InitCall ==
    /\ ~poll.called
    /\ IF puterAvail
       THEN /\ \E slot \in AuthSlots : PuterReady(slot)
            /\ poll' = Poll(TRUE, FALSE, FALSE, 0)
       ELSE /\ poll' = Poll(TRUE, TRUE, TRUE, 0)
            /\ UNCHANGED << store, authOps, sdkLog >>
    /\ UNCHANGED << puterAvail, sdkVars, screenVars, genVars, adVars, route >>

\* a tick of the interval: at most MaxTicks of them are due by the timeout
IntervalTick ==
    /\ poll.interval
    /\ poll.ticks < MaxTicks
    /\ IF puterAvail
       THEN /\ \E slot \in AuthSlots : PuterReady(slot)
            /\ poll' = [poll EXCEPT !.interval = FALSE, !.ticks = @ + 1]
       ELSE /\ poll' = [poll EXCEPT !.ticks = @ + 1]
            /\ UNCHANGED << store, authOps, sdkLog >>
    /\ UNCHANGED << puterAvail, sdkVars, screenVars, genVars, adVars, route >>

\* the timeout fires, after every tick due before it: clearInterval, then the
\* error only if the SDK is still missing
LoadTimeout ==
    /\ poll.timeout
    /\ poll.interval => poll.ticks >= MaxTicks - 1
    /\ poll' = [poll EXCEPT !.interval = FALSE, !.timeout = FALSE]
    /\ store' = IF puterAvail THEN store ELSE SetError(store, LoadTimeoutMessage)
    /\ UNCHANGED << puterAvail, sdkVars, sdkLog, screenVars, genVars, adVars, authOps,
                    route >>

(************************* redirects to the auth page ***********************)
(* Home and Resume each have an effect that navigates to /auth; it runs when *)
(* the screen mounts and again whenever one of its dependencies has changed. *)
Screens == {"home", "resume"}
Route(screen, dep, from, isLoading, isAuthenticated) ==
    [screen |-> screen, dep |-> dep, from |-> from, isLoading |-> isLoading,
     isAuthenticated |-> isAuthenticated]
NoRoute == Route("none", <<>>, "none", FALSE, FALSE)

\* the dependencies of the effect that the store can change
DepOf(screen, s) ==
    IF screen = "home" THEN << s.isAuthenticated >>
    ELSE << s.isLoading, s.user, s.isAuthenticated, s.getUser >>

\* the test of the effect
Redirects(screen, s) ==
    IF screen = "home" THEN ~s.isAuthenticated
    ELSE ~s.isLoading /\ ~s.isAuthenticated

\* the effect runs on the store as rendered; navigate() leaves the screen
RunEffect(screen) ==
    route' = IF Redirects(screen, store)
             THEN Route("auth", <<>>, screen, store.isLoading, store.isAuthenticated)
             ELSE Route(screen, DepOf(screen, store), "none", FALSE, FALSE)

ScreenMounts(screen) ==
    /\ route.screen = "none"
    /\ RunEffect(screen)
    /\ UNCHANGED << puterAvail, sdkVars, sdkLog, store, screenVars, genVars, adVars,
                    authOps, poll >>

EffectReruns ==
    /\ route.screen \in Screens
    /\ route.dep # DepOf(route.screen, store)
    /\ RunEffect(route.screen)
    /\ UNCHANGED << puterAvail, sdkVars, sdkLog, store, screenVars, genVars, adVars,
                    authOps, poll >>

(***************************** specification *******************************)
AdapterIdle ==
    /\ adPc = "idle"
    /\ adMethod = "none"
    /\ adCall = NoCall
    /\ adCalls = <<>>
    /\ adOutcome = NoOutcome
    /\ adCount = 0
    /\ authOps = [slot \in AuthSlots |-> IdleOp]
    /\ poll = NotPolling
    /\ route = NoRoute

ScreenInit ==
    /\ mounted = FALSE
    /\ unmounted = FALSE
    /\ id = "1"
    /\ navCount = 0
    /\ loads = [s \in Slots |-> LoadIdle]
    /\ imageUrl = 0
    /\ resumeUrl = 0
    /\ feedback = NULL
    /\ fileMetadata = NoMeta
    /\ nextUrl = 1
    /\ liveUrls = {}
    /\ isGenerating = FALSE
    /\ generationError = NULL
    /\ generationSuccess = NoSuccess
    /\ genPc = "idle"
    /\ genCall = NoCall
    /\ genData = NoRecord
    /\ genFile = NoMeta
    /\ genFeedback = NULL
    /\ genResult = NoResult
    /\ genOptions = NoOptions
    /\ aiResp = NoResp
    /\ genCalls = NoCalls
    /\ genFailures = {}
    /\ genEntry = "none"
    /\ reqCount = 0
    /\ previews = <<>>
    /\ downloads = <<>>
    /\ dlInfo = NoDl
    /\ twin = NoTwin
    /\ rendered = NoRender

\* the platform before the application has touched it
SdkInit ==
    /\ sdkUser = "U1"
    /\ fsFiles = {}
    /\ sdkLog = {}

\* The review screen of one resume: the SDK script may still be loading, the
\* store holds any record (or none, or text that does not parse) under its key.
Init ==
    /\ puterAvail \in BOOLEAN
    /\ kvStore \in KvStores
    /\ kvStore[KeyOf("2")] = KvNone
    /\ SdkInit
    /\ store = InitialStore
    /\ ScreenInit
    /\ AdapterIdle

LoadNext ==
    \/ \E slot \in Slots, ok \in BOOLEAN : LoadKvSettle(slot, ok)
    \/ \E slot \in Slots, ok \in BOOLEAN : LoadReadResumeSettle(slot, ok)
    \/ \E slot \in Slots, ok \in BOOLEAN : LoadReadImageSettle(slot, ok)

GenSettle ==
    \/ \E ok \in BOOLEAN, err \in ErrValues : GenKvSettle(ok, err)
    \/ \E ok \in BOOLEAN, err \in ErrValues, resp \in AiResponses, stamp \in Stamps :
          GenAiSettle(ok, err, resp, stamp)
    \/ \E ok \in BOOLEAN, blocked \in BOOLEAN, date \in Dates, throws \in BOOLEAN :
          GenWriteSettle(ok, blocked, date, throws)
    \/ GenDownloadSettle

Next ==
    \/ Mount
    \/ PuterLoads
    \/ LoadNext
    \/ HandleGenerateUpdatedResume
    \/ GenSettle

Spec == Init /\ [][Next]_vars

\* The review screen across route changes /resume/:id.
InitNav ==
    /\ puterAvail \in BOOLEAN
    /\ kvStore \in KvStores
    /\ kvStore[KeyOf("1")] = KvJson(RecPdf)
    /\ kvStore[KeyOf("2")] = KvJson(RecDoc)
    /\ SdkInit
    /\ store = InitialStore
    /\ ScreenInit
    /\ AdapterIdle

NextNav ==
    \/ Next
    \/ \E newId \in Ids : ChangeId(newId)

SpecNav == InitNav /\ [][NextNav]_vars

\* The review screen across a route change to an id whose record is missing
\* or does not parse, while the feedback of the previous id is still shown.
InitStale ==
    /\ puterAvail \in BOOLEAN
    /\ kvStore \in KvStores
    /\ kvStore[KeyOf("1")] = KvJson(RecPdf)
    /\ kvStore[KeyOf("2")] \in {KvNone, KvBad}
    /\ SdkInit
    /\ store = InitialStore
    /\ ScreenInit
    /\ AdapterIdle

\* The review screen up to and after its teardown: the loads in flight, route
\* changes and the unmount in any order.
NextTeardown ==
    \/ Mount
    \/ PuterLoads
    \/ LoadNext
    \/ \E newId \in Ids : ChangeId(newId)
    \/ Unmount

SpecTeardown == InitNav /\ [][NextTeardown]_vars

SpecStale == InitStale /\ [][NextNav]_vars

\* the pending promises of a regeneration request settle
SpecStaleFair == SpecStale /\ WF_vars(GenSettle)

\* The file generator on its own: generateAndDownload applied to every input.
Contents == {<<>>, <<"\n">>, T1, T3}
GenMetas == Metas \cup {AbsentMeta}

CallGenerateAndDownload(content, company, meta, date, throws) ==
    LET dl == GenerateAndDownload(content, company, meta, date, throws)
    IN  /\ ~dlInfo.called
        /\ downloads' = dl.dl
        /\ dlInfo' = [called |-> TRUE, content |-> content, company |-> company,
                      meta |-> meta, date |-> date,
                      throws |-> throws /\ PrimaryGenerator(meta.originalMimeType) # "txt",
                      rejected |-> dl.rejected]
        /\ UNCHANGED << puterAvail, appVars, sdkVars, sdkLog, store, screenVars, isGenerating,
                        generationError, generationSuccess, genPc, genCall, genData,
                        genFile, genFeedback, genResult, genOptions, aiResp,
                        genCalls, genFailures, genEntry, reqCount, previews, twin, rendered,
                        adVars >>

InitGen ==
    /\ puterAvail = TRUE
    /\ kvStore = [k \in Keys |-> KvNone]
    /\ SdkInit
    /\ store = InitialStore
    /\ ScreenInit
    /\ AdapterIdle

NextGen ==
    \E content \in Contents, company \in Companies, meta \in GenMetas,
       date \in Dates, throws \in BOOLEAN :
          CallGenerateAndDownload(content, company, meta, date, throws)

SpecGen == InitGen /\ [][NextGen]_vars

\* The PDF and Word generators on their own: every line over a small
\* alphabet, pairs of sample lines, and contents long enough to fill pages.
MaxLineLen == 3
MaxLines == 45
LineAlphabet == {"A", "B", "c", " ", "1"}
RECURSIVE StringsUpTo(_)
StringsUpTo(n) ==
    IF n = 0 THEN {<<>>}
    ELSE LET shorter == StringsUpTo(n - 1)
         IN  shorter \cup {Append(s, c) : s \in shorter, c \in LineAlphabet}
SampleLines ==
    { <<>>, <<" ", "A", "B", " ">>, <<"A", "b", " ", "C", "d">>,
      <<"s", "k", "i", "l", "l", "s", ":">>, <<"A", "b", " ", "|", " ", "2", "0", "2", "0">>,
      <<"a", "@", "b", ".", "c">>, <<"c", "c", " ", "c", "c", " ", "c">> }
\* n times the line, each followed by a line feed
Repeat(line, n) ==
    LET w == Len(line) + 1
    IN  [i \in 1 .. (n * w) |-> IF i % w = 0 THEN "\n" ELSE line[i % w]]
RenderContents ==
    StringsUpTo(MaxLineLen)
    \cup { a \o <<"\n">> \o b : a \in SampleLines, b \in SampleLines }
    \cup { Repeat(a, n) \o b :
             a \in {<<"A", "B">>, <<"c", "c", "c">>}, n \in (MaxLines - 3) .. MaxLines,
             b \in {<<>>, <<"A", "B">>, <<"c", "c", "c">>} }
    \cup { Repeat(<<>>, n) \o b :
             n \in (2 * MaxLines - 6) .. (2 * MaxLines),
             b \in {<<>>, <<"A", "B">>, <<"c", "c", "c">>} }
WrapCols == {2, 80}

NextRender ==
    \E content \in RenderContents, cols \in WrapCols : Render(content, cols)

SpecRender == InitGen /\ [][NextRender]_vars

\* Two requests that differ in fileMetadata only.
TwinMetas == { Meta(mime, ext, name) :
                 mime \in {PDF_MIME, DOC_MIME, TXT_MIME},
                 ext \in {"pdf", "doc"}, name \in {"cv.pdf", "resume.doc"} }

NextTwin ==
    \E content \in {T1, T3}, company \in {AandB, NoStr}, metaA \in TwinMetas,
       metaB \in TwinMetas, stamp \in Stamps, blocked \in BOOLEAN, date \in Dates,
       throws \in BOOLEAN :
          /\ metaA.originalMimeType = metaB.originalMimeType
          /\ TwinRequests(content, company, metaA, metaB, UpdatedPath(company, stamp),
                          blocked, date, throws)

SpecTwin == InitGen /\ [][NextTwin]_vars

\* The store's methods called one after the other by any screen.
InitAdapter ==
    /\ puterAvail \in BOOLEAN
    /\ kvStore \in {[k \in Keys |-> KvNone], [k \in Keys |-> KvJson(RecPdf)]}
    /\ sdkUser \in {NULL, "U1"}
    /\ fsFiles = {}
    /\ sdkLog = {}
    /\ store = InitialStore
    /\ ScreenInit
    /\ AdapterIdle

AuthNext ==
    \/ \E m \in AuthMethods : AdapterCall(m, <<>>)
    \/ \E ok \in BOOLEAN, err \in ErrValues : SignInSettle(ok, err)
    \/ \E ok \in BOOLEAN, err \in ErrValues : IsSignedInSettle(ok, err)
    \/ \E ok \in BOOLEAN, err \in ErrValues : GetUserSettle(ok, err)
    \/ \E ok \in BOOLEAN, err \in ErrValues : SignOutSettle(ok, err)
    \/ \E ok \in BOOLEAN, err \in ErrValues : RefreshUserSettle(ok, err)
    \/ AdapterReturn

NextAdapter ==
    \/ PuterLoads
    \/ AuthNext
    \/ \E m \in Methods \ AuthMethods, key \in Keys : AdapterCall(m, key)
    \/ \E ok \in BOOLEAN : PassThroughSettle(ok)
    \/ \E ok \in BOOLEAN, err \in ErrValues, resp \in AiResponses,
          company \in {NoStr, AandB}, stamp \in Stamps :
             AdChatSettle(ok, err, resp, company, stamp)
    \/ \E ok \in BOOLEAN : AdWriteSettle(ok)

SpecAdapter == InitAdapter /\ [][NextAdapter]_vars

\* The auth operations of the store called while others are in flight.
InitAuth ==
    /\ puterAvail \in BOOLEAN
    /\ kvStore = [k \in Keys |-> KvNone]
    /\ sdkUser \in {NULL, "U1"}
    /\ fsFiles = {}
    /\ sdkLog = {}
    /\ store = InitialStore
    /\ ScreenInit
    /\ AdapterIdle

NextAuth ==
    \/ PuterLoads
    \/ \E slot \in AuthSlots, m \in AuthMethods : AuthBegin(slot, m)
    \/ \E slot \in AuthSlots, ok \in BOOLEAN, err \in ErrValues : SdkServes(slot, ok, err)
    \/ \E slot \in AuthSlots : AuthSettle(slot)

SpecAuth == InitAuth /\ [][NextAuth]_vars

\* The review screen together with the auth operations of the store.
InitApp ==
    /\ Init
    /\ kvStore[KeyOf("1")] \in {KvJson(RecPdf), KvBad, KvNone}

NextApp ==
    \/ Next
    \/ AuthNext

SpecApp == InitApp /\ [][NextApp]_vars


(******************************* claims ************************************)
NoFeedbackMessage == "No feedback available to generate updated resume"

\* C1: while the loaded feedback is null or absent the 'Generate Updated
\* Resume' button is not rendered, and an invocation of
\* handleGenerateUpdatedResume in such a state only sets generationError: it
\* issues no SDK call (no kv.get, no AI call), opens no preview, triggers no
\* download and does not start generating.
C1_NoRegenerationWithoutFeedback ==
    [][ /\ (feedback \in {NULL, UNDEF}) => ~ButtonRendered
        /\ (feedback' \in {NULL, UNDEF}) => ~ButtonRendered'
        /\ (reqCount' # reqCount /\ feedback \in {NULL, UNDEF}) =>
              /\ generationError' = NoFeedbackMessage
              /\ UNCHANGED << sdkLog, sdkVars, store, genCalls, genCall, genPc,
                              previews, downloads, dlInfo, isGenerating,
                              generationSuccess >> ]_vars

\* a record without feedback has been loaded and the handler was invoked on it
C1_Witness ==
    /\ loads[1] = LoadDone
    /\ feedback = UNDEF
    /\ fileMetadata # NoMeta
    /\ genEntry = "no feedback"
    /\ generationError = NoFeedbackMessage
    /\ ~ButtonRendered

\* C2: generateAndDownload with originalMimeType "text/plain" triggers exactly
\* one download, named <base>.txt, whose blob is text/plain and holds
\* resumeContent unchanged, for every content and company name.
C2_TextPlainGivesTxt ==
    (dlInfo.called /\ dlInfo.meta.originalMimeType = TXT_MIME) =>
        /\ Len(downloads) = 1
        /\ downloads[1].name.ext = "txt"
        /\ downloads[1].blob.type = TXT_MIME
        /\ downloads[1].blob.fmt = "raw"
        /\ downloads[1].blob.text = dlInfo.content
        /\ ~dlInfo.rejected

\* text/plain metadata, content with surrounding white space, a company name
C2_Witness ==
    /\ dlInfo.called
    /\ dlInfo.meta.originalMimeType = TXT_MIME
    /\ dlInfo.content = T3
    /\ dlInfo.company = AandB
    /\ Len(downloads) = 1

ExpectedFormat(mime) ==
    CASE mime = PDF_MIME -> <<"pdf", PDF_MIME>>
      [] mime \in {DOCX_MIME, DOC_MIME} -> <<"docx", DOCX_MIME>>
      [] OTHER -> <<"txt", TXT_MIME>>
FormatOf(d) == <<d.name.ext, d.blob.type>>

\* C3: when no generator throws, generateAndDownload triggers one download
\* whose extension and blob type are decided by originalMimeType alone: pdf for
\* application/pdf, docx (wordprocessingml type) for the two Word types, txt
\* (text/plain) for every other value; no other extension or type is produced.
C3_FormatByMimeType ==
    dlInfo.called =>
        /\ ~dlInfo.throws =>
              /\ Len(downloads) = 1
              /\ FormatOf(downloads[1]) = ExpectedFormat(dlInfo.meta.originalMimeType)
        /\ \A i \in DOMAIN downloads :
              FormatOf(downloads[i]) \in
                 {<<"pdf", PDF_MIME>>, <<"docx", DOCX_MIME>>, <<"txt", TXT_MIME>>}

\* an application/msword upload regenerated as .docx
C3_Witness ==
    /\ dlInfo.called
    /\ ~dlInfo.throws
    /\ dlInfo.meta.originalMimeType = DOC_MIME
    /\ Len(downloads) = 1
    /\ downloads[1].name.ext = "docx"

\* C4: when the PDF or Word generator throws, generateAndDownload ends by
\* triggering a .txt text/plain download of the unmodified content under the
\* same base filename, and its promise resolves.
C4_FallbackToPlainText ==
    (dlInfo.called /\ dlInfo.throws) =>
        /\ ~dlInfo.rejected
        /\ downloads # <<>>
        /\ downloads[Len(downloads)] =
              [name |-> Filename(BaseFilename(dlInfo.company, dlInfo.date), "txt"),
               blob |-> Blob(TXT_MIME, "raw", dlInfo.content)]

\* the PDF generator threw and the text was downloaded instead
C4_Witness ==
    /\ dlInfo.called
    /\ dlInfo.throws
    /\ dlInfo.meta.originalMimeType = PDF_MIME
    /\ dlInfo.content = T3
    /\ Len(downloads) = 1
    /\ downloads[1].name.ext = "txt"

\* C5: every adapter method, once its promise has settled, has not rejected;
\* and when it failed (SDK unavailable or the SDK call rejecting) it returned
\* an empty result (undefined, or false for checkAuthStatus) and the store's
\* shared error string is set.
C5_FailureSignalledNotThrown ==
    adOutcome.settled =>
        /\ ~adOutcome.rejected
        /\ adOutcome.failed =>
              /\ adOutcome.value \in {UNDEF, "false"}
              /\ store.error # NULL

\* C6: an adapter method called while the SDK object is unavailable issues no
\* SDK call and its promise resolves at once: to false for checkAuthStatus, to
\* a result with success = false and a non-empty error for
\* generateUpdatedResume, to undefined for every other method.
C6_UnavailableSdkIsNotCalled ==
    [][ (adPc = "idle" /\ adPc' # "idle" /\ ~puterAvail) =>
          /\ sdkLog' = sdkLog
          /\ adCall' = NoCall
          /\ adCalls' = <<>>
          /\ UNCHANGED sdkVars
          /\ adOutcome'.settled
          /\ ~adOutcome'.rejected
          /\ (adMethod' = "checkAuthStatus") => adOutcome'.value = "false"
          /\ (adMethod' = "ai.generateUpdatedResume") =>
                /\ ~adOutcome'.result.success
                /\ Truthy(adOutcome'.result.error)
          /\ (adMethod' \notin {"checkAuthStatus", "ai.generateUpdatedResume"}) =>
                /\ adOutcome'.value = UNDEF
                /\ adOutcome'.result = NoResult ]_vars

\* generateUpdatedResume was called without the SDK and has returned its
\* failure result
C6_Witness ==
    /\ ~puterAvail
    /\ adPc = "done"
    /\ adMethod = "ai.generateUpdatedResume"
    /\ adCalls = <<>>
    /\ sdkLog = {}
    /\ adOutcome.settled
    /\ ~adOutcome.result.success
    /\ adOutcome.result.error = NotAvailable

MessageKinds == {"sdk unavailable", "AI call failure", "empty AI output"}

\* C7 as stated: a regeneration request in which SDK unavailable, AI call
\* failure, empty AI output or a format-generation exception occurred has
\* ended with generationError set to a non-null message.
C7_EveryFailureKindSetsError ==
    ( /\ genEntry = "started"
      /\ genPc = "idle"
      /\ genFailures \cap (MessageKinds \cup {"format-generation exception"}) # {} )
    => generationError # NULL

\* C7: every regeneration request that started ends in the handler (catch and
\* finally) with a message or a success banner; when SDK unavailable, AI call
\* failure or empty AI output occurred it ends with generationError non-null
\* and no success banner; a PDF/Word generation exception is absorbed by
\* generateAndDownload, which downloads plain text instead, and the request
\* ends with the success banner and generationError null.
C7_FailuresEndInMessageOrFallback ==
    [][ (genPc # "idle" /\ genPc' = "idle") =>
          /\ (generationError' # NULL) # (generationSuccess' # NoSuccess)
          /\ (genFailures' \cap MessageKinds # {}) =>
                /\ generationError' # NULL
                /\ generationSuccess' = NoSuccess
          /\ ("format-generation exception" \in genFailures') =>
                /\ generationError' = NULL
                /\ generationSuccess' # NoSuccess
                /\ Len(downloads) = 1
                /\ downloads[1].name.ext = "txt" ]_vars

\* a request whose PDF generation threw has ended with the success banner
C7_Witness ==
    /\ genEntry = "started"
    /\ genPc = "idle"
    /\ "format-generation exception" \in genFailures
    /\ generationError = NULL
    /\ generationSuccess # NoSuccess

\* C8: a regeneration request issues at most one kv.get, one AI chat call and
\* one fs.write; a step of a request in which a failure has occurred issues no
\* SDK call, and none is issued for the handler between requests; an auth
\* operation calls no SDK auth function twice.
C8_NothingIsRetried ==
    [][ /\ genCalls'.kvget <= 1 /\ genCalls'.chat <= 1 /\ genCalls'.write <= 1
        /\ (reqCount' = reqCount /\ (genFailures' # {} \/ genPc = "idle")) =>
              /\ genCalls' = genCalls
              /\ {c \in sdkLog' : c.by = "gen"} = {c \in sdkLog : c.by = "gen"}
        /\ \A i, j \in DOMAIN adCalls' : (i # j) => adCalls'[i] # adCalls'[j] ]_vars

\* a request failed at the AI call after one kv.get and one chat, and signIn
\* ran through its three SDK auth functions
C8_Witness ==
    /\ genEntry = "started"
    /\ genPc = "idle"
    /\ "AI call failure" \in genFailures
    /\ genCalls = [kvget |-> 1, chat |-> 1, write |-> 0]
    /\ adMethod = "signIn"
    /\ adCalls = <<"auth.signIn", "auth.isSignedIn", "auth.getUser">>

\* C9: isGenerating is true exactly while a request is in flight; a handler
\* invocation stopped by a guard leaves it false; and, the pending promises
\* settling, isGenerating always becomes false again, which re-enables the
\* handler.
C9_GeneratingAlwaysEnds ==
    /\ [](isGenerating <=> (genPc # "idle"))
    /\ [][ (reqCount' # reqCount /\ genEntry' # "started") => ~isGenerating' ]_vars
    /\ (isGenerating ~> (~isGenerating /\ genPc = "idle"))

\* a request that found the record unparsable has ended
C9_Witness ==
    /\ genEntry = "started"
    /\ genPc = "idle"
    /\ ~isGenerating
    /\ "JSON parse error" \in genFailures
    /\ generationError # NULL

MutatingApis == {"kv.set", "kv.delete", "kv.flush"}

\* C10: no step of the review screen (loads, route changes, regeneration
\* requests) changes the key-value store; none of its SDK calls is kv.set,
\* kv.delete or kv.flush; every fs.write goes under /resumes/updated/ and only
\* such files are added to the file system.
C10_RecordNeverMutated ==
    [][ /\ kvStore' = kvStore
        /\ \A c \in sdkLog' :
              /\ c.api \notin MutatingApis
              /\ (c.api = "fs.write") => c.path.dir = "/resumes/updated/"
        /\ \A f \in fsFiles' \ fsFiles : f.dir = "/resumes/updated/" ]_vars

\* after a route change a regeneration request has saved its file and ended
C10_Witness ==
    /\ navCount > 0
    /\ genEntry = "started"
    /\ genPc = "idle"
    /\ fsFiles # {}
    /\ \E c \in sdkLog : c.by = "gen" /\ c.api = "fs.write"

\* C11: once the component has been torn down and every loadResume invocation
\* has settled, no object URL that was created remains unrevoked.
C11_UrlsReleasedAfterTeardown ==
    (unmounted /\ \A slot \in Slots : loads[slot].pc \in {"idle", "done"})
        => liveUrls = {}

\* C12: within a regeneration request the SDK calls follow one another: the
\* chat call is issued by the step in which the awaited kv.get settles, the
\* fs.write by the step in which the awaited chat call settles; the preview
\* and the download are produced by the step in which the fs.write settles,
\* from a successful result whose content is not blank; and the request
\* awaits exactly one SDK call, the last one it issued.
C12_SequentialIo ==
    [][ /\ (genCalls'.chat > genCalls.chat) =>
              /\ genPc = "kv" /\ genCall.api = "kv.get"
              /\ genCalls = [kvget |-> 1, chat |-> 0, write |-> 0]
        /\ (genCalls'.write > genCalls.write) =>
              /\ genPc = "ai" /\ genCall.api = "ai.chat"
              /\ genCalls = [kvget |-> 1, chat |-> 1, write |-> 0]
        /\ (previews' # <<>> \/ downloads' # <<>>) =>
              /\ genPc \in {"write", "download"}
              /\ genCalls = [kvget |-> 1, chat |-> 1, write |-> 1]
              /\ genResult.success
              /\ Trim(genResult.updatedResumeContent) # <<>>
        /\ (genPc' = "kv") => genCall'.api = "kv.get" /\ genCalls'.chat = 0
        /\ (genPc' = "ai") => genCall'.api = "ai.chat" /\ genCalls'.write = 0
        /\ (genPc' = "write") => genCall'.api = "fs.write"
        /\ (genPc' \in {"idle", "download"}) => genCall' = NoCall ]_vars

\* a request has gone through its three calls and produced preview and download
C12_Witness ==
    /\ genPc = "download"
    /\ genCalls = [kvget |-> 1, chat |-> 1, write |-> 1]
    /\ Len(previews) = 1
    /\ Len(downloads) = 1
    /\ genCall = NoCall

\* the responses the claim calls empty AI output
EmptyOutput(r) ==
    \/ r.kind \in {"undefined", "nocontent"}
    \/ r.kind = "string" /\ Trim(r.s) = <<>>
    \/ r.kind = "blocks" /\ r.blocks = <<>>
    \/ r.kind = "blocks" /\ r.blocks # <<>> /\ r.blocks[1].text.t # "string"
    \/ r.kind = "blocks" /\ r.blocks # <<>> /\ Trim(r.blocks[1].text.v) = <<>>

EmptyOutputMessages ==
    {"Failed to generate resume content from AI", "Generated resume content is empty"}

\* C13: when the chat call of a regeneration request resolves to an empty
\* output (response or content missing, empty string, empty block list, first
\* block without text, white space only), generateUpdatedResume fails with a
\* non-empty error, which becomes the message shown; no fs.write is issued, no
\* file is written, no preview is opened and no download is triggered.
C13_EmptyOutputFails ==
    [][ (genPc = "ai" /\ genPc' # "ai" /\ aiResp' # NoResp /\ EmptyOutput(aiResp')) =>
          /\ genPc' = "idle"
          /\ generationError' \in EmptyOutputMessages
          /\ generationSuccess' = NoSuccess
          /\ "empty AI output" \in genFailures'
          /\ genCalls'.write = 0
          /\ sdkLog' = sdkLog
          /\ fsFiles' = fsFiles
          /\ previews' = <<>>
          /\ downloads' = <<>>
          /\ ~dlInfo'.called ]_vars

\* a request whose response had a first block without text, and a second
\* block with text, has ended with the message
C13_Witness ==
    /\ genPc = "idle"
    /\ genEntry = "started"
    /\ aiResp = AiResp("blocks", <<>>, <<Block(NoStr), Block(Str(T1))>>)
    /\ generationError = "Generated resume content is empty"
    /\ fsFiles = {}

\* C14: the content of a successful result is the message content itself
\* when that is a string, and the text of the first content block when it is
\* a list of blocks; later blocks do not contribute.
C14_ContentIsStringOrFirstBlock ==
    [][ (genPc = "ai" /\ genPc' = "write") =>
          /\ genResult'.success
          /\ aiResp'.kind \in {"string", "blocks"}
          /\ (aiResp'.kind = "string") =>
                genResult'.updatedResumeContent = aiResp'.s
          /\ (aiResp'.kind = "blocks") =>
                genResult'.updatedResumeContent = aiResp'.blocks[1].text.v ]_vars

\* of two blocks with text the first was returned
C14_Witness ==
    /\ genPc = "write"
    /\ aiResp = AiResp("blocks", <<>>, <<Block(Str(T2)), Block(Str(T1))>>)
    /\ genResult.success
    /\ genResult.updatedResumeContent = T2

\* C15: while ai.generateUpdatedResume runs, the options it was given carry
\* the record's jobDescription as jobDescription, its rawText as
\* originalResume and its companyName as companyName.
C15_RecordFieldsPassedToAi ==
    (genPc \in {"ai", "write"}) =>
        /\ genOptions.jobDescription = genData.jobDescription
        /\ genOptions.originalResume = genData.rawText
        /\ genOptions.companyName = genData.companyName

\* C16: two requests that are identical except for originalExtension and
\* originalFilename of the file metadata show the same outputs: the same
\* downloads (name, type, content), the same preview and the same success or
\* error message.
C16_OnlyMimeTypeObservable ==
    (twin.called /\ twin.metaA.originalMimeType = twin.metaB.originalMimeType)
        => twin.a = twin.b

\* C17: no step of a regeneration request (the handler's entry and the
\* settling of its calls, successful or not) changes the screen's feedback,
\* fileMetadata, imageUrl or resumeUrl; the feedback handed to
\* ai.generateUpdatedResume is the feedback the screen held when the request
\* started, which is the feedback field of a stored record.
C17_FeedbackImmutable ==
    [][ /\ (reqCount' # reqCount \/ genPc' # genPc) =>
              UNCHANGED << feedback, fileMetadata, imageUrl, resumeUrl >>
        /\ (reqCount' # reqCount /\ genEntry' = "started") => genFeedback' = feedback
        /\ (genPc' \in {"ai", "write", "download"}) =>
              /\ genFeedback' = genFeedback
              /\ genOptions'.feedback = genFeedback'
              /\ \E k \in Keys : /\ kvStore[k].kind = "json"
                                 /\ kvStore[k].rec.feedback = genOptions'.feedback ]_vars

\* a request has completed successfully with the loaded feedback still shown
C17_Witness ==
    /\ genPc = "download"
    /\ genOptions.feedback = "F1"
    /\ feedback = "F1"
    /\ fileMetadata = RecPdf.fileMetadata
    /\ imageUrl # 0
    /\ resumeUrl # 0

(* ------------------------------------------------------------------------ *)
(* Line classification and pagination of the rendered document              *)
(* ------------------------------------------------------------------------ *)
\* the lines of the rendered content, trimmed as generatePDF and
\* formatForWord trim them
RenderedLine(i) == Trim(SplitLines(rendered.content)[i])
RenderedLines == DOMAIN SplitLines(rendered.content)
\* the operations generatePDF made for line i, by kind
OpsOf(i, kind) ==
    {k \in DOMAIN rendered.pdf.ops :
        rendered.pdf.ops[k].line = i /\ rendered.pdf.ops[k].kind = kind}
\* a non-empty line of capital letters A-Z, optionally separated by spaces
AllCapitals(line) ==
    /\ line # <<>>
    /\ \A k \in DOMAIN line : line[k] \in UpperChars \cup {" "}
HeaderMarkup(line) == Piece("\\par \\b \\fs24 ", line, "\\b0 \\fs22 \\par ")
SubHeaderMarkup(line) == Piece("\\par \\b \\fs22 ", line, "\\b0 \\par ")
BodyMarkup(line) == Piece("", line, "\\par ")
\* line i is drawn in the PDF with the preset, and wrapped in Word by the markup
DrawnAs(i, preset, markup) ==
    /\ OpsOf(i, "text") # {}
    /\ \A k \in OpsOf(i, "text") : rendered.pdf.ops[k].preset = preset
    /\ rendered.word[i] = markup

\* C18 (as stated): every non-empty trimmed line consisting only of capital
\* letters A-Z (optionally separated by spaces) is a header: isHeaderLine is
\* true, the PDF draws it bold 13 and Word wraps it in the header markup.
\* Violated by a line of one capital letter.
C18_AllCapitalsIsHeader ==
    rendered.called =>
        \A i \in RenderedLines :
            AllCapitals(RenderedLine(i)) =>
                /\ IsHeaderLine(RenderedLine(i))
                /\ DrawnAs(i, Preset("bold", 13), HeaderMarkup(RenderedLine(i)))

\* C18 (amended): every trimmed line of at least two characters consisting
\* only of capital letters A-Z and spaces is a header: isHeaderLine is true,
\* the PDF draws it bold 13 and Word wraps it in the header markup.
C18_TwoOrMoreCapitalsIsHeader ==
    rendered.called =>
        \A i \in RenderedLines :
            (AllCapitals(RenderedLine(i)) /\ Len(RenderedLine(i)) >= 2) =>
                /\ IsHeaderLine(RenderedLine(i))
                /\ DrawnAs(i, Preset("bold", 13), HeaderMarkup(RenderedLine(i)))

\* C18 witness: a content with the line "A B" has been rendered, its text
\* drawn in bold 13
C18_Witness ==
    /\ rendered.called
    /\ \E i \in RenderedLines :
          /\ RenderedLine(i) = <<"A", " ", "B">>
          /\ \E k \in OpsOf(i, "text") : rendered.pdf.ops[k].preset = Preset("bold", 13)

\* the class a font preset of generatePDF stands for
ClassOfPreset(preset) ==
    IF preset = Preset("bold", 13) THEN "header"
    ELSE IF preset = Preset("bold", 12) THEN "subheader"
    ELSE IF preset = Preset("normal", 11) THEN "body"
    ELSE "none"
\* the class the markup formatForWord put around a line stands for
ClassOfMarkup(piece) ==
    IF piece = HeaderMarkup(piece.text) THEN "header"
    ELSE IF piece = SubHeaderMarkup(piece.text) THEN "subheader"
    ELSE IF piece = BodyMarkup(piece.text) THEN "body"
    ELSE "none"
\* the classes generatePDF drew the pieces of line i in
PdfClasses(i) == {ClassOfPreset(rendered.pdf.ops[k].preset) : k \in OpsOf(i, "text")}
\* header before sub-header before body
ClassOfLine(line) ==
    IF IsHeaderLine(line) THEN "header"
    ELSE IF IsSubHeaderLine(line) THEN "subheader"
    ELSE "body"

\* C19: every non-blank line of the content is drawn in the PDF in exactly one
\* of the three classes header (bold 13), sub-header (bold 12), body (normal
\* 11), header taking precedence over sub-header, and formatForWord wraps the
\* line in the markup of the same class.
C19_OneClassPerLine ==
    rendered.called =>
        \A i \in RenderedLines :
            RenderedLine(i) # <<>> =>
                /\ PdfClasses(i) = {ClassOfLine(RenderedLine(i))}
                /\ rendered.word[i].text = RenderedLine(i)
                /\ ClassOfMarkup(rendered.word[i]) = ClassOfLine(RenderedLine(i))

\* C19 witness: a line that matches a header pattern and a sub-header pattern
\* ("Ab Cd") has been rendered as a header in both outputs
C19_Witness ==
    /\ rendered.called
    /\ \E i \in RenderedLines :
          /\ RenderedLine(i) = <<"A", "b", " ", "C", "d">>
          /\ IsHeaderLine(RenderedLine(i)) /\ IsSubHeaderLine(RenderedLine(i))
          /\ PdfClasses(i) = {"header"}
          /\ ClassOfMarkup(rendered.word[i]) = "header"

\* yPosition just before operation k of generatePDF
YBefore(k) == IF k = 1 THEN Margin ELSE rendered.pdf.ops[k - 1].after
\* the number of pdf.addPage calls
PagesAdded == Cardinality({k \in DOMAIN rendered.pdf.ops : rendered.pdf.ops[k].kind = "addPage"})

\* C20: PDF pagination respects the page geometry: every wrapped line is drawn
\* at a y with margin <= y <= pageHeight - margin and advances y by the line
\* height; a page is added, and y reset to the margin, exactly when y is beyond
\* pageHeight - margin just before a line is drawn; a blank line only advances
\* y by half a line height and neither draws text nor adds a page.
C20_PaginationRespectsGeometry ==
    rendered.called =>
        LET ops == rendered.pdf.ops
        IN  /\ \A k \in DOMAIN ops :
                  /\ ops[k].y = YBefore(k)
                  /\ ops[k].kind = "text" =>
                        /\ Margin <= ops[k].y /\ ops[k].y <= PageHeight - Margin
                        /\ ops[k].after = ops[k].y + LineHeight
                        /\ (k > 1 /\ ops[k - 1].kind # "addPage")
                               => ops[k - 1].after <= PageHeight - Margin
                  /\ ops[k].kind = "addPage" =>
                        /\ ops[k].y > PageHeight - Margin
                        /\ ops[k].after = Margin
                        /\ k < Len(ops) /\ ops[k + 1].kind = "text"
                                        /\ ops[k + 1].line = ops[k].line
                  /\ ops[k].kind = "skip" => ops[k].after = ops[k].y + HalfLine
            /\ rendered.pdf.page = 1 + PagesAdded
            /\ \A i \in RenderedLines :
                  IF RenderedLine(i) = <<>>
                  THEN /\ OpsOf(i, "text") = {} /\ OpsOf(i, "addPage") = {}
                       /\ Cardinality(OpsOf(i, "skip")) = 1
                  ELSE /\ OpsOf(i, "text") # {} /\ OpsOf(i, "skip") = {}

\* C20 witness: a content has been rendered in which blank lines carried y
\* beyond pageHeight - margin without a page being added, and the page was
\* added when the next line was drawn, at the top margin
C20_Witness ==
    /\ rendered.called
    /\ \E k \in DOMAIN rendered.pdf.ops :
          /\ k > 2
          /\ rendered.pdf.ops[k].kind = "text" /\ rendered.pdf.ops[k].y = Margin
          /\ rendered.pdf.ops[k - 1].kind = "addPage"
          /\ rendered.pdf.ops[k - 2].kind = "skip"
          /\ rendered.pdf.ops[k - 2].y > PageHeight - Margin

(* ------------------------------------------------------------------------ *)
(* The store's auth state                                                   *)
(* ------------------------------------------------------------------------ *)
\* C22: in every reachable state of the store auth.getUser() returns the
\* value of auth.user; in particular both are null after setError recorded an
\* error following a successful sign-in.
C22_GetUserEqualsUser == GetUser(store) = store.user

\* C21: once every auth operation that was called has settled, and none of
\* their SDK calls was rejected, the store's isAuthenticated equals the
\* platform's signed-in status, however the operations overlapped.
C21_AuthMatchesSdkOnceSettled ==
    ( /\ AuthSettled
      /\ \E slot \in AuthSlots : authOps[slot].pc = "done"
      /\ \A slot \in AuthSlots : ~authOps[slot].rejected
      /\ store.error = NULL )
        => (store.isAuthenticated <=> sdkUser # NULL)

(* ------------------------------------------------------------------------ *)
(* What the success banner says                                             *)
(* ------------------------------------------------------------------------ *)
\* C25: whenever a request ends with the success banner "generated
\* successfully in X format", X being the upper-cased originalExtension, the
\* file that request downloaded has the extension X.
C25_SuccessFormatIsDownloadedFormat ==
    [][ (genPc = "download" /\ generationSuccess' # NoSuccess) =>
          /\ downloads # <<>>
          /\ \A k \in DOMAIN downloads :
                Upper(downloads[k].name.ext) = generationSuccess'.format ]_vars

\* C26: a saved path is returned by generateUpdatedResume, and shown in the
\* success banner as 'Also saved to: <path>', only if the fs.write of the
\* regenerated content to that path succeeded.
C26_SavedPathOnlyIfWritten ==
    /\ (genPc = "download" /\ genResult.savedPath # NoPath)
           => genResult.savedPath \in fsFiles
    /\ (generationSuccess # NoSuccess /\ generationSuccess.saved # NoPath)
           => generationSuccess.saved \in fsFiles

(* ------------------------------------------------------------------------ *)
(* Loads that overlap a route change                                        *)
(* ------------------------------------------------------------------------ *)
\* C24: once every loadResume invocation has settled, each having read both
\* of its files (two object URLs per load), the feedback and the file metadata
\* shown by the review screen are those of the record stored for the current
\* route id: a load started for an earlier id has not overwritten them.
C24_CurrentRecordShownOnceLoaded ==
    ( /\ mounted /\ ~unmounted
      /\ \A slot \in Slots : loads[slot].pc \in {"idle", "done"}
      /\ nextUrl = 1 + 2 * (navCount + 1)
      /\ kvStore[KeyOf(id)].kind = "json" )
        => /\ feedback = kvStore[KeyOf(id)].rec.feedback
           /\ fileMetadata = kvStore[KeyOf(id)].rec.fileMetadata

(********************* requests made through the button ********************)
\* onClick of the 'Generate Updated Resume' button: the button exists only
\* inside {feedback && (...)} and is disabled while isGenerating.
ClickGenerate ==
    /\ ButtonEnabled
    /\ HandleGenerateUpdatedResume

\* The review screen across route changes to a record whose feedback is null,
\* every request being a click on the button.
InitClick ==
    /\ puterAvail \in BOOLEAN
    /\ kvStore \in KvStores
    /\ kvStore[KeyOf("1")] = KvJson(RecPdf)
    /\ kvStore[KeyOf("2")] = KvJson(RecNullFb)
    /\ SdkInit
    /\ store = InitialStore
    /\ ScreenInit
    /\ AdapterIdle

NextClick ==
    \/ Mount
    \/ PuterLoads
    \/ LoadNext
    \/ ClickGenerate
    \/ GenSettle
    \/ \E newId \in Ids : ChangeId(newId)

SpecClick == InitClick /\ [][NextClick]_vars

\* C27: under any sequence of regeneration requests made through the button,
\* generationError and generationSuccess are never both non-null, so the error
\* banner and the success banner are never shown together.
C27_ErrorAndSuccessNeverTogether ==
    ~(generationError # NULL /\ generationSuccess # NoSuccess)

\* a second request has ended with an error after the first one had written
\* its file and shown the success banner
C27_Witness ==
    /\ reqCount = 2
    /\ genPc = "idle"
    /\ generationError # NULL
    /\ generationSuccess = NoSuccess
    /\ fsFiles # {}

(************************* the application shell ***************************)
\* The store from its creation: init() with its timers, the auth check it
\* starts, and the redirect effect of the screen shown.
InitShell ==
    /\ puterAvail \in BOOLEAN
    /\ kvStore = [k \in Keys |-> KvNone]
    /\ sdkUser \in {NULL, "U1"}
    /\ fsFiles = {}
    /\ sdkLog = {}
    /\ store = InitialStore
    /\ ScreenInit
    /\ AdapterIdle

NextShell ==
    \/ InitCall
    \/ IntervalTick
    \/ LoadTimeout
    \/ PuterLoads
    \/ \E slot \in AuthSlots, ok \in BOOLEAN, err \in ErrValues : SdkServes(slot, ok, err)
    \/ \E slot \in AuthSlots : AuthSettle(slot)
    \/ \E screen \in Screens : ScreenMounts(screen)
    \/ EffectReruns

SpecShell == InitShell /\ [][NextShell]_vars

\* Timers that are due do fire: every tick of a running interval and the
\* timeout. Nothing obliges the SDK script to load.
SpecShellFair ==
    /\ SpecShell
    /\ WF_vars(IntervalTick)
    /\ WF_vars(LoadTimeout)

\* C23: after init() is called the store eventually leaves its initial loading
\* state: puterReady becomes true (and the auth check is started) or error is
\* set to the load-timeout message, whenever the SDK becomes available
\* relative to the ticks and the timeout.
C23_InitLeavesLoading ==
    poll.called ~> (store.puterReady \/ store.error = LoadTimeoutMessage)

\* C28: a screen has navigated to the auth page only in a state where
\* isLoading was false and isAuthenticated was false.
C28_RedirectOnlyAfterAuthCheck ==
    (route.screen = "auth") => (~route.isLoading /\ ~route.isAuthenticated)

====
